---- MODULE Spec2Model ----
(***************************************************************************)
(* Model of the content scanner of crates/oxide:                           *)
(*   - scanner/mod.rs            Scanner (scan, scan_content, get_files,   *)
(*                               get_globs), create_walker's change filter *)
(*                               and changed_time_since                    *)
(*   - scanner/detect_sources.rs GlobResolver::resolve                     *)
(*                                                                         *)
(* Paths are sequences of name codes relative to the base of the Auto      *)
(* source; << >> is the base itself.  A name code is the index of the name *)
(* in NameTable, which lists the names in ascending byte order, so that    *)
(* comparing codes is comparing file names.                                *)
(***************************************************************************)
EXTENDS Integers, Sequences, FiniteSets, TLC

VARIABLES
    \* ---- the filesystem and the clock (environment of the Scanner) ----
    fs,               \* existing path -> modification time (directories and files)
    fs_content,       \* existing file -> set of candidates its bytes contain
    now,              \* the clock that stamps modifications
    gitignore,        \* paths excluded by the ignore rules of the walker
    sources,          \* Scanner.sources (the SourceEntry values it was built with)
    git_markers,      \* levels at or above the root that hold a .git entry
                      \* (0 the root, 1 its parent, 2 its grandparent)
    gitignore_files,  \* level -> lines of the .gitignore file of that directory
    unreadable,       \* existing files that std::fs::read fails on
    meta_err,         \* existing files that metadata() fails on
    constructed,      \* Scanner::new returned (FALSE: it panicked)
    directives,       \* the list of source entries create_walker is given, in order
    walker,           \* what create_walker built from the list
    input,            \* the argument of the last get_candidates_with_positions or
                      \* pre_process_input
    positions,        \* the list the last get_candidates_with_positions returned
    processed,        \* the pre-processor the last pre_process_input chose and the
                      \* bytes it returned
    \* ---- struct Scanner (mod.rs:73-94) and the walker's mtimes map ----
    mtimes,           \* create_walker: mtimes (path -> recorded time)
    changed_content,  \* Scanner.changed_content (pending File entries)
    files,            \* Scanner.files
    dirs,             \* Scanner.dirs
    globs,            \* Scanner.globs
    candidates,       \* Scanner.candidates
    \* ---- what the last call did and returned ----
    lastOp,           \* name of the last operation ("rescan": a scan() that
                      \* follows a scan() with nothing but clock ticks between)
    scanResult,       \* the list returned by the last scan()
    contentResult,    \* the list returned by the last scan_content()
    walk_admitted,    \* the files the last walk admitted
    drained,          \* the File entries the last scan() took off changed_content
    extracted,        \* every candidate any extraction has produced so far
    changes,          \* number of modifications made to the filesystem so far
    \* ---- one run of GlobResolver::resolve ----
    resolver,         \* fields of GlobResolver plus the position in resolve()
    ignored_under_deep \* history: the ignored directories resolve() reached while
                      \* their parent was in the deep set

vars == <<fs, fs_content, now, gitignore, sources, git_markers, gitignore_files,
          unreadable, meta_err, constructed, directives, walker, input, positions, processed, drained, mtimes, changed_content, files, dirs,
          globs, candidates, lastOp, scanResult, contentResult,
          walk_admitted, extracted, changes, resolver, ignored_under_deep>>

resolverVars == <<resolver, ignored_under_deep>>

\* what Scanner::new fixes for the walker
walkerVars == <<gitignore, sources, git_markers, gitignore_files, constructed,
                directives, walker>>

\* the read and metadata failures of the filesystem
errorVars == <<unreadable, meta_err>>

\* the state of get_candidates_with_positions
positionVars == <<input, positions, processed>>

scannerVars == <<mtimes, changed_content, files, dirs, globs, candidates,
                 scanResult, contentResult,
                 walk_admitted, drained, extracted>>

(***************************************************************************)
(* Bounds                                                                  *)
(***************************************************************************)
MaxTime == 1
MaxChanges == 2       \* cap on the number of filesystem modifications
MaxFiles == 3         \* cap on the length of Scanner.files
MaxDirs == 5          \* cap on the number of directories of a resolver tree
MaxPieces == 3        \* cap on the number of pieces an input is put together from
MaxDirectives == 3    \* cap on the length of the list of source entries

(***************************************************************************)
(* Names and paths                                                         *)
(***************************************************************************)
NameTable == <<".git", "a", "b", "c", "foo.styl", "public", "x.html", "y.txt">>

Code(name) == CHOOSE i \in DOMAIN NameTable : NameTable[i] = name

FileNames == {Code("foo.styl"), Code("x.html"), Code("y.txt")}

base == << >>

IsFilePath(p) == p # << >> /\ p[Len(p)] \in FileNames

IsDirPath(p) == ~IsFilePath(p)

Parent(p) == SubSeq(p, 1, Len(p) - 1)

FileName(p) == p[Len(p)]

IsPrefix(p, q) == Len(p) <= Len(q) /\ SubSeq(q, 1, Len(p)) = p

IsProperPrefix(p, q) == Len(p) < Len(q) /\ IsPrefix(p, q)

\* the direct children of directory p among the existing paths of tree t
Children(t, p) == {q \in t : q # << >> /\ Parent(q) = p}

SetMax(S) == CHOOSE m \in S : \A x \in S : x <= m

SetMin(S) == CHOOSE m \in S : \A x \in S : m <= x

Range(s) == {s[i] : i \in DOMAIN s}

\* scanResult and contentResult before the first call: no list was returned
NoResult == <<0>>

\* walker where the model does not follow how create_walker built it
NoWalker == [some |-> FALSE]

\* input before the first call of get_candidates_with_positions
NoInput == [content |-> << >>, extension |-> ""]

\* all orders in which the elements of S can be listed
Orders(S) == {s \in [1..Cardinality(S) -> S] : \A i, j \in DOMAIN s : s[i] = s[j] => i = j}

(***************************************************************************)
(* The filesystem the Scanner runs on                                      *)
(***************************************************************************)
\* the files that can exist under the base while the Scanner lives
ScanFiles == {<<Code("x.html")>>,
              <<Code("a"), Code("x.html")>>,
              <<Code("a"), Code("b"), Code("x.html")>>}

\* the lines the .gitignore file of the base can hold while the Scanner lives
IgnoreChoices == {{}, {"a/b"}}

\* candidates, listed in ascending byte order
CandTable == <<"flex", "grid", "p-4">>

Cand(token) == CHOOSE i \in DOMAIN CandTable : CandTable[i] = token

\* what the extractor finds in the bytes a file can hold
ContentChoices == {{Cand("flex")}, {Cand("grid"), Cand("p-4")}}

\* what the extractor finds in the Content blobs the host passes to scan_content
BlobChoices == {{Cand("flex"), Cand("p-4")}}

Times == 0..MaxTime

\* fs.write(path) after create_dir_all(parent): missing directories appear, the
\* directory that gains an entry and every new path are stamped with the clock
CreatedFs(f) ==
    LET fresh == {SubSeq(f, 1, n) : n \in 1..Len(f)} \ DOMAIN fs
        top == SetMin({Len(p) : p \in fresh})
        bumped == SubSeq(f, 1, top - 1)
    IN  [p \in DOMAIN fs \cup fresh |-> IF p \in fresh \/ p = bumped THEN now ELSE fs[p]]

CreateFile(f, c) ==
    /\ f \notin DOMAIN fs
    /\ fs' = CreatedFs(f)
    /\ fs_content' = [p \in DOMAIN fs_content \cup {f} |-> IF p = f THEN c ELSE fs_content[p]]
    /\ changes < MaxChanges
    /\ changes' = changes + 1
    /\ lastOp' = "fs"
    /\ UNCHANGED <<now, walkerVars, errorVars, positionVars, scannerVars, resolverVars>>

WriteFile(f, c) ==
    /\ f \in DOMAIN fs
    /\ fs' = [fs EXCEPT ![f] = now]
    /\ fs_content' = [fs_content EXCEPT ![f] = c]
    /\ changes < MaxChanges
    /\ changes' = changes + 1
    /\ lastOp' = "fs"
    /\ UNCHANGED <<now, walkerVars, errorVars, positionVars, scannerVars, resolverVars>>

DeleteFile(f) ==
    /\ f \in DOMAIN fs
    /\ fs' = [p \in DOMAIN fs \ {f} |-> IF p = Parent(f) THEN now ELSE fs[p]]
    /\ fs_content' = [p \in DOMAIN fs_content \ {f} |-> fs_content[p]]
    /\ changes < MaxChanges
    /\ changes' = changes + 1
    /\ lastOp' = "fs"
    /\ UNCHANGED <<now, walkerVars, errorVars, positionVars, scannerVars, resolverVars>>

\* a write that leaves the file with modification time t (the clock was set,
\* or the file was restored with its times)
SetFileTime(f, t, c) ==
    /\ f \in DOMAIN fs
    /\ fs[f] # t
    /\ fs' = [fs EXCEPT ![f] = t]
    /\ fs_content' = [fs_content EXCEPT ![f] = c]
    /\ changes < MaxChanges
    /\ changes' = changes + 1
    /\ lastOp' = "fs"
    /\ UNCHANGED <<now, walkerVars, errorVars, positionVars, scannerVars, resolverVars>>

Tick ==
    /\ now < MaxTime
    /\ now' = now + 1
    /\ UNCHANGED <<fs, fs_content, walkerVars, errorVars, positionVars, scannerVars, lastOp, changes, resolverVars>>

(***************************************************************************)
(* The sources and the ignore rules create_walker installs                 *)
(***************************************************************************)
\* SourceEntry; every directive of the model sits on the base
Auto == [kind |-> "Auto", base |-> base, pattern |-> "**/*"]

IgnoredAuto == [kind |-> "IgnoredAuto", base |-> base, pattern |-> "**/*"]

Pattern(pat) == [kind |-> "Pattern", base |-> base, pattern |-> pat]

IgnoredPattern(pat) == [kind |-> "IgnoredPattern", base |-> base, pattern |-> pat]

\* the patterns of the directives and of the .gitignore files, listed in
\* ascending byte order
PatternTable == <<"**/*", "**/*.html", "*.styl", "a/b", "a/x.html", "x.html">>

PatternIndex(pat) == CHOOSE i \in DOMAIN PatternTable : PatternTable[i] = pat

\* gitignore matching of one pattern against a path below the base: a pattern
\* without a slash matches the name at any depth, a pattern with a slash is
\* anchored at the base
line_matches(pat, p) ==
    CASE pat = "**/*" -> TRUE
      [] pat = "**/*.html" -> FileName(p) = Code("x.html")
      [] pat = "*.styl" -> FileName(p) = Code("foo.styl")
      [] pat = "a/b" -> p = <<Code("a"), Code("b")>>
      [] pat = "a/x.html" -> p = <<Code("a"), Code("x.html")>>
      [] pat = "x.html" -> FileName(p) = Code("x.html")

\* create_walker: the roots of the walk
roots(srcs) == {s.base : s \in {t \in srcs : t.kind \in {"Auto", "Pattern"}}}

\* a faulty collection that drops the lines of the Pattern sources;
\* C15_WhitelistBelowAdmittedDirs fails with it
ignores_without_patterns(srcs) ==
    {[whitelist |-> FALSE, pattern |-> s.pattern] :
        s \in {t \in srcs : t.kind \in {"IgnoredAuto", "IgnoredPattern"}}}

\* create_walker: the lines collected for the base; a Pattern source adds its
\* pattern behind a "!" (a whitelist line), the ignored sources add an ignore line
ignores(srcs) ==
    {[whitelist |-> s.kind = "Pattern", pattern |-> s.pattern] :
        s \in {t \in srcs : t.kind \in {"IgnoredAuto", "Pattern", "IgnoredPattern"}}}

\* a faulty order that puts the ignore lines before the whitelist lines;
\* C14_NegatedWins fails with it
line_rank_ignores_first(l) ==
    IF l.whitelist THEN Len(PatternTable) + PatternIndex(l.pattern)
    ELSE PatternIndex(l.pattern)

\* the position of a line in the BTreeSet<String> of its base: "!" sorts before
\* every first character a pattern has, so the whitelist lines come first
line_rank(l) ==
    IF l.whitelist THEN PatternIndex(l.pattern)
    ELSE Len(PatternTable) + PatternIndex(l.pattern)

\* the verdict of the Gitignore built from the lines of the base: the last
\* line that matches decides
source_match(srcs, p) ==
    LET hits == {l \in ignores(srcs) : line_matches(l.pattern, p)}
    IN  IF hits = {} THEN "none"
        ELSE LET last == CHOOSE l \in hits : \A h \in hits : line_rank(h) <= line_rank(l)
             IN  IF last.whitelist THEN "whitelist" ELSE "ignore"

\* the directories at or above the root, by distance from the root
Levels == 0..2

\* a faulty test that looks at the directories above the root only;
\* C16_AncestorGitignores fails with it
require_git_above_root(markers) == markers \ {0} # {}

\* create_walker: require_git(true) when the root or a directory above it
\* holds .git
require_git(markers) == markers # {}

\* whether the walk consults the .gitignore file of the directory at this
\* level: always without require_git, up to the nearest .git with it
gitignore_applies(level, markers) ==
    IF require_git(markers) THEN level <= SetMin(markers) ELSE TRUE

gitignore_match(p, markers, gfiles) ==
    \E level \in Levels :
        /\ gitignore_applies(level, markers)
        /\ \E pat \in gfiles[level] : line_matches(pat, p)

\* auto_source_detection::RULES, as far as the files of the model go
default_ignored(p) == FileName(p) = Code("foo.styl")

\* the verdict of the walker's rules on a path: the lines of the sources first,
\* the .gitignore files next, the default rules last
ignore_verdict(p, srcs, markers, gfiles) ==
    LET m == source_match(srcs, p)
    IN  IF m # "none" THEN m
        ELSE IF gitignore_match(p, markers, gfiles) \/ default_ignored(p) THEN "ignore"
        ELSE "none"

\* the files that exist under the base of a Scanner built from directives
SourceFiles == {<<Code("a"), Code("x.html")>>,
                <<Code("a"), Code("foo.styl")>>,
                <<Code("a"), Code("b"), Code("x.html")>>}

\* the paths below the base that a set of files brings into being
PathUniverse_of(F) == UNION {{SubSeq(f, 1, n) : n \in 1..Len(f)} : f \in F}

PathUniverse == PathUniverse_of(ScanFiles \cup SourceFiles)

\* the paths the rules exclude
excluded_paths(srcs, markers, gfiles) ==
    {p \in PathUniverse : ignore_verdict(p, srcs, markers, gfiles) = "ignore"}

\* a faulty create_walker that falls back to walking the base;
\* C17_DisarmedReturnsContentOnly fails with it
create_walker_base_root(srcs) == [some |-> TRUE, roots |-> {base}]

\* create_walker returns no walker when no source gives a root
\* (roots.next()? on an empty set)
create_walker(srcs) == [some |-> roots(srcs) # {}, roots |-> roots(srcs)]

\* GitignoreBuilder::add_line returns Err for a line that is no valid glob;
\* "[" opens a character class and never closes it
add_line_fails(pat) == pat = "["

\* a faulty create_walker that builds the matchers before it looks for a
\* root; C23_PanicsWhenWalkerBuilt fails with it
create_walker_panics_eagerly(srcs) ==
    \E l \in ignores(srcs) : add_line_fails(l.pattern)

\* create_walker panics: add_line(..).unwrap() on a malformed line, reached
\* only behind `roots.next()?`
create_walker_panics(srcs) ==
    /\ roots(srcs) # {}
    /\ \E l \in ignores(srcs) : add_line_fails(l.pattern)

(***************************************************************************)
(* The walker: ignore rules, the change filter, changed_time_since         *)
(***************************************************************************)
\* the Err of a std::io::Result<SystemTime>
Err == -1

\* a faulty changed_time_since that looks at the directory's own modification
\* time only; C1_IncrementalPickup fails with it
changed_time_since_own_mtime(t, path, since) == {t[path]}

\* a faulty changed_time_since that does not look into sub-directories;
\* C26_LaterIffSubtreeLater fails with it
changed_time_since_flat(t, path, since) ==
    LET newer == {k \in Children(DOMAIN t, path) : IsFilePath(k) /\ t[k] > since}
    IN  IF t[path] > since \/ newer = {} THEN {t[path]} ELSE {t[k] : k \in newer}

\* changed_time_since(path, since): the values it can return, one for each order
\* in which read_dir can list the children; Err when the loop meets an entry
\* whose metadata cannot be read before it returns
RECURSIVE changed_time_since(_, _, _)
changed_time_since(t, path, since) ==
    LET modified_time == t[path]
        kids == Children(DOMAIN t, path)
        failing == kids \cap meta_err
        newer == {k \in kids \ failing : IsFilePath(k) /\ t[k] > since}
        subdirs == {k \in kids \ failing : IsDirPath(k)}
        picks == {c \in [subdirs -> Times \cup {Err}] :
                    \A s \in subdirs : c[s] \in changed_time_since(t, s, since)}
        clean == {c \in picks : \A s \in subdirs : c[s] # Err}
    IN  IF modified_time > since THEN {modified_time}
        ELSE {t[k] : k \in newer}
             \cup (IF failing # {} \/ picks # clean THEN {Err} ELSE {})
             \cup (IF failing = {} /\ newer = {}
                   THEN {SetMax({modified_time} \cup {c[s] : s \in subdirs}) : c \in clean}
                   ELSE {})

\* a faulty filter that takes the recorded time for the current one when the
\* metadata of the entry cannot be read; C29_ErrorStoresWallClock fails with it
current_time_error_keeps_record(path) ==
    IF path \in meta_err
    THEN {IF path \in DOMAIN mtimes THEN mtimes[path] ELSE now}
    ELSE IF path \in DOMAIN mtimes /\ IsDirPath(path)
    THEN {IF v = Err THEN now ELSE v : v \in changed_time_since(fs, path, mtimes[path])}
    ELSE {fs[path]}

\* the values the filter can compute as current_time of an entry
current_time(path) ==
    IF path \in meta_err THEN {now}
    ELSE IF path \in DOMAIN mtimes /\ IsDirPath(path)
    THEN {IF v = Err THEN now ELSE v : v \in changed_time_since(fs, path, mtimes[path])}
    ELSE {fs[path]}

\* one value of current_time for each path of P, in every possible way
RECURSIVE CurrentTimes(_)
CurrentTimes(P) ==
    IF P = {} THEN {[p \in {} |-> 0]}
    ELSE LET q == CHOOSE q \in P : TRUE
         IN  {[p \in P |-> IF p = q THEN v ELSE c[p]] :
                 c \in CurrentTimes(P \ {q}), v \in current_time(q)}

\* a faulty filter that admits every entry, changed or not;
\* C31_RecordedFileNotReadAgain fails with it
filter_entry_admits_all(path, cur) == TRUE

\* the verdict of the filter once current_time is known: not in the map, or
\* recorded with another value
filter_entry(path, cur) ==
    \/ path \notin DOMAIN mtimes
    \/ mtimes[path] # cur[path]

\* the walker yields an entry: the root unconditionally (depth 0 is exempt from
\* the ignore rules and the filter), any other entry when its parent was
\* yielded, no ignore rule excludes it and the filter admits it
RECURSIVE Yielded(_, _)
Yielded(path, cur) ==
    IF path = base THEN TRUE
    ELSE /\ Yielded(Parent(path), cur)
         /\ path \notin gitignore
         /\ filter_entry(path, cur)

\* the entries for which the filter ran in this walk
Filtered(cur) ==
    {p \in DOMAIN fs \ {base} : Yielded(Parent(p), cur) /\ p \notin gitignore}

\* a faulty scan_sources that records the time of a file only when the file
\* can be read; C28_FailedReadNotRetried fails with it
scan_sources_record_on_read(cur, order) ==
    LET seen == {p \in DOMAIN fs : Yielded(p, cur) /\ p \notin meta_err}
        filtered == Filtered(cur) \ unreadable
    IN  IF ~create_walker(sources).some
        THEN [mtimes |-> mtimes, dirs |-> dirs, changed_content |-> changed_content,
              files |-> files, admitted |-> {}]
        ELSE
        [mtimes |-> [p \in DOMAIN mtimes \cup filtered |->
                        IF p \in filtered THEN cur[p] ELSE mtimes[p]],
         dirs |-> dirs \cup {p \in seen : IsDirPath(p)},
         changed_content |-> changed_content \cup {p \in seen : IsFilePath(p)},
         files |-> files \o order,
         admitted |-> {p \in seen : IsFilePath(p)}]

\* a faulty scan_sources that starts the list of files afresh in every walk;
\* C22_FilesAccumulateInWalkOrder fails with it
scan_sources_fresh_list(cur, order) ==
    LET seen == {p \in DOMAIN fs : Yielded(p, cur) /\ p \notin meta_err}
        filtered == Filtered(cur)
    IN  IF ~create_walker(sources).some
        THEN [mtimes |-> mtimes, dirs |-> dirs, changed_content |-> changed_content,
              files |-> files, admitted |-> {}]
        ELSE
        [mtimes |-> [p \in DOMAIN mtimes \cup filtered |->
                        IF p \in filtered THEN cur[p] ELSE mtimes[p]],
         dirs |-> dirs \cup {p \in seen : IsDirPath(p)},
         changed_content |-> changed_content \cup {p \in seen : IsFilePath(p)},
         files |-> order,
         admitted |-> {p \in seen : IsFilePath(p)}]

\* a faulty scan_sources that replaces the pending entries by those of its own
\* walk; C27_NoAdmittedFileLost fails with it
scan_sources_forget_pending(cur, order) ==
    LET seen == {p \in DOMAIN fs : Yielded(p, cur) /\ p \notin meta_err}
        filtered == Filtered(cur)
    IN  IF ~create_walker(sources).some
        THEN [mtimes |-> mtimes, dirs |-> dirs, changed_content |-> changed_content,
              files |-> files, admitted |-> {}]
        ELSE
        [mtimes |-> [p \in DOMAIN mtimes \cup filtered |->
                        IF p \in filtered THEN cur[p] ELSE mtimes[p]],
         dirs |-> dirs \cup {p \in seen : IsDirPath(p)},
         changed_content |-> {p \in seen : IsFilePath(p)},
         files |-> files \o order,
         admitted |-> {p \in seen : IsFilePath(p)}]

\* Scanner::scan_sources: one walk, given the times the filter computed and the
\* order in which the walk met the admitted files; an entry whose metadata
\* cannot be read is passed over
scan_sources(cur, order) ==
    LET seen == {p \in DOMAIN fs : Yielded(p, cur) /\ p \notin meta_err}
        filtered == Filtered(cur)
    IN  IF ~create_walker(sources).some
        THEN [mtimes |-> mtimes, dirs |-> dirs, changed_content |-> changed_content,
              files |-> files, admitted |-> {}]
        ELSE
        [mtimes |-> [p \in DOMAIN mtimes \cup filtered |->
                        IF p \in filtered THEN cur[p] ELSE mtimes[p]],
         dirs |-> dirs \cup {p \in seen : IsDirPath(p)},
         changed_content |-> changed_content \cup {p \in seen : IsFilePath(p)},
         files |-> files \o order,
         admitted |-> {p \in seen : IsFilePath(p)}]

\* every outcome a walk can have in the current state
Walks ==
    LET curs == CurrentTimes(DOMAIN fs \ {base})
    IN  UNION {{scan_sources(c, o) :
                    o \in Orders({p \in DOMAIN fs : /\ IsFilePath(p)
                                                     /\ Yielded(p, c)
                                                     /\ p \notin meta_err})} :
               c \in curs}

(***************************************************************************)
(* GlobResolver (detect_sources.rs)                                        *)
(*                                                                         *)
(* The resolver is a record: the fields of struct GlobResolver, the        *)
(* directory tree WalkDir reads, the iterators and loop variables of       *)
(* resolve(), and pc, the position in resolve():                           *)
(*   "next"      at `it.next()` of the main loop                           *)
(*   "climb"     at the head of the `while let Some(parent_path)` loop of  *)
(*               the ignored-directory branch                              *)
(*   "demoted"   between `deep.remove(parent)` and `shallow.insert(parent)`*)
(*   "rescan"    at `child_it.next()` of the re-scan loop                  *)
(*   "promoted"  between `deep.insert(child)` and `shallow.remove(child)`  *)
(*   "done"      after the main loop, where the globs are built            *)
(***************************************************************************)
None == <<0>>

\* Path::parent(): the ancestors of the base are not part of the model, the
\* base is treated as the filesystem root
parent_of(p) == IF p = base THEN None ELSE Parent(p)

\* sort_by_dir_and_name: directories before files, then by file name
sort_by_dir_and_name(a, z) ==
    \/ IsDirPath(a) /\ IsFilePath(z)
    \/ IsDirPath(a) = IsDirPath(z) /\ FileName(a) < FileName(z)

\* the entries of S in the order of sort_by_dir_and_name
RECURSIVE SortEntries(_)
SortEntries(S) ==
    IF S = {} THEN << >>
    ELSE LET first == CHOOSE a \in S : \A z \in S \ {a} : sort_by_dir_and_name(a, z)
         IN  <<first>> \o SortEntries(S \ {first})

RECURSIVE WalkSeq(_, _)
\* WalkDir::new(p).sort_by(sort_by_dir_and_name): p, then each child in order,
\* a directory followed by its own walk
WalkDir(t, p) == <<p>> \o WalkSeq(t, SortEntries(Children(t, p)))

WalkSeq(t, kids) ==
    IF kids = << >> THEN << >>
    ELSE (IF IsDirPath(Head(kids)) THEN WalkDir(t, Head(kids)) ELSE <<Head(kids)>>)
         \o WalkSeq(t, Tail(kids))

\* WalkDir::new(p).max_depth(1).sort_by(sort_by_dir_and_name)
WalkDirDepth1(t, p) == <<p>> \o SortEntries(Children(t, p))

\* it.skip_current_dir() right after `it` yielded the directory d
skip_current_dir(it, d) == SelectSeq(it, LAMBDA q : ~IsProperPrefix(d, q))

\* the lines of fixtures/template-extensions.txt
template_extensions == <<"# template extensions", "pug", "html", "", "js">>

\* file extensions, listed in ascending byte order
ExtensionTable == <<"html", "js", "pug", "styl", "txt">>

ExtensionIndex(e) == CHOOSE i \in DOMAIN ExtensionTable : ExtensionTable[i] = e

\* x.starts_with('#')
starts_with_hash(x) == Len(x) > 0 /\ SubSeq(x, 1, 1) = "#"

\* KNOWN_EXTENSIONS: the lines that are neither comments nor empty
KNOWN_EXTENSIONS ==
    SelectSeq(template_extensions, LAMBDA x : ~starts_with_hash(x) /\ x # "")

\* extension_list.sort() on the elements of the set
RECURSIVE extension_sort(_)
extension_sort(S) ==
    IF S = {} THEN << >>
    ELSE LET first == CHOOSE e \in S : \A x \in S : ExtensionIndex(e) <= ExtensionIndex(x)
         IN  <<first>> \o extension_sort(S \ {first})

\* list.join(",")
RECURSIVE join(_)
join(list) ==
    IF list = << >> THEN ""
    ELSE IF Len(list) = 1 THEN list[1]
    ELSE list[1] \o "," \o join(Tail(list))

\* the extension list of the globs: found_extensions sorted and joined
extension_list(found) == join(extension_sort(found))

\* path.extension() of a file name: what follows its last dot
name_extension(name) ==
    LET dots == {i \in 1..Len(name) : SubSeq(name, i, i) = "."}
    IN  SubSeq(name, SetMax(dots) + 1, Len(name))

\* a faulty constructor that forgets the forced static directory;
\* C13_NothingIgnored fails with it
GlobResolver_new_no_public(t, dirs_) ==
    [tree |-> t,
     allowed_paths |-> dirs_,
     forced_static_directories |-> {},
     root_directories |-> {base},
     found_extensions |-> Range(KNOWN_EXTENSIONS),
     deep_globable_directories |-> {},
     shallow_globable_directories |-> {},
     it |-> WalkDir(t, base),
     entry |-> None,
     parent |-> None,
     child_it |-> << >>,
     child_entry |-> None,
     pc |-> "next"]

\* GlobResolver::new(base, dirs) on the directory tree t
GlobResolver_new(t, dirs_) ==
    [tree |-> t,
     allowed_paths |-> dirs_,
     forced_static_directories |-> {<<Code("public")>>},
     root_directories |-> {base},
     found_extensions |-> Range(KNOWN_EXTENSIONS),
     deep_globable_directories |-> {},
     shallow_globable_directories |-> {},
     it |-> WalkDir(t, base),
     entry |-> None,
     parent |-> None,
     child_it |-> << >>,
     child_entry |-> None,
     pc |-> "next"]

\* the parents of p up to, but not including, the base (the loop of
\* detect_sources.rs:187-203 stops at the base before it looks at it)
ParentsBelowBase(p) == {SubSeq(p, 1, n) : n \in 1..(Len(p) - 1)}

\* a faulty found_deep_glob_parent that never finds a deep parent;
\* C10_NoDeepBelowDeep fails with it
found_deep_glob_parent_never(r, p) == FALSE

\* found_deep_glob_parent after the loop of detect_sources.rs:187-203
found_deep_glob_parent(r, p) ==
    \E q \in ParentsBelowBase(p) : q \in r.deep_globable_directories

\* a faulty main loop that treats only the listed directory itself as forced
\* static, not the directories below it; C11_PublicForcedStatic fails with it
step_next_public_itself(r) ==
    IF r.it = << >> THEN [r EXCEPT !.pc = "done"]
    ELSE
    LET e == Head(r.it)
        r1 == [r EXCEPT !.it = Tail(r.it), !.entry = e]
    IN  IF IsDirPath(e) /\ e # base /\ FileName(e) = Code(".git")
        THEN [r1 EXCEPT !.it = skip_current_dir(r1.it, e)]
        ELSE IF IsFilePath(e) THEN r1
        ELSE IF e \in r.forced_static_directories
        THEN [r1 EXCEPT !.forced_static_directories = @ \cup {e},
                        !.root_directories = @ \cup {e}]
        ELSE IF e \notin r.allowed_paths
        THEN [r1 EXCEPT !.parent = parent_of(e), !.pc = "climb"]
        ELSE IF ~found_deep_glob_parent(r, e) /\ e # base
        THEN [r1 EXCEPT !.deep_globable_directories = @ \cup {e}]
        ELSE r1

\* a faulty main loop that promotes the base like any other allowed
\* directory; C37_BaseNotClassified fails with it
step_next_promotes_base(r) ==
    IF r.it = << >> THEN [r EXCEPT !.pc = "done"]
    ELSE
    LET e == Head(r.it)
        r1 == [r EXCEPT !.it = Tail(r.it), !.entry = e]
    IN  IF IsDirPath(e) /\ e # base /\ FileName(e) = Code(".git")
        THEN [r1 EXCEPT !.it = skip_current_dir(r1.it, e)]
        ELSE IF IsFilePath(e) THEN r1
        ELSE IF e \in r.forced_static_directories
                \/ parent_of(e) \in r.forced_static_directories
        THEN [r1 EXCEPT !.forced_static_directories = @ \cup {e},
                        !.root_directories = @ \cup {e}]
        ELSE IF e \notin r.allowed_paths
        THEN [r1 EXCEPT !.parent = parent_of(e), !.pc = "climb"]
        ELSE IF ~found_deep_glob_parent(r, e)
        THEN [r1 EXCEPT !.deep_globable_directories = @ \cup {e}]
        ELSE r1

\* a faulty main loop that records the extension of every file it walks, as
\* the block left in comments at detect_sources.rs:213-223 is meant to;
\* C38_KnownExtensionList fails with it
step_next_collects_extensions(r) ==
    IF r.it = << >> THEN [r EXCEPT !.pc = "done"]
    ELSE
    LET e == Head(r.it)
        r1 == [r EXCEPT !.it = Tail(r.it), !.entry = e]
    IN  IF IsDirPath(e) /\ e # base /\ FileName(e) = Code(".git")
        THEN [r1 EXCEPT !.it = skip_current_dir(r1.it, e)]
        ELSE IF IsFilePath(e)
        THEN [r1 EXCEPT !.found_extensions =
                            @ \cup {name_extension(NameTable[FileName(e)])}]
        ELSE IF e \in r.forced_static_directories
                \/ parent_of(e) \in r.forced_static_directories
        THEN [r1 EXCEPT !.forced_static_directories = @ \cup {e},
                        !.root_directories = @ \cup {e}]
        ELSE IF e \notin r.allowed_paths
        THEN [r1 EXCEPT !.parent = parent_of(e), !.pc = "climb"]
        ELSE IF ~found_deep_glob_parent(r, e) /\ e # base
        THEN [r1 EXCEPT !.deep_globable_directories = @ \cup {e}]
        ELSE r1

\* the main loop from `it.next()` to the first change of the deep or shallow
\* set: .git, forced static directories, files, and the deep promotion
step_next(r) ==
    IF r.it = << >> THEN [r EXCEPT !.pc = "done"]
    ELSE
    LET e == Head(r.it)
        r1 == [r EXCEPT !.it = Tail(r.it), !.entry = e]
    IN  IF IsDirPath(e) /\ e # base /\ FileName(e) = Code(".git")
        THEN [r1 EXCEPT !.it = skip_current_dir(r1.it, e)]
        ELSE IF IsFilePath(e) THEN r1
        ELSE IF e \in r.forced_static_directories
                \/ parent_of(e) \in r.forced_static_directories
        THEN [r1 EXCEPT !.forced_static_directories = @ \cup {e},
                        !.root_directories = @ \cup {e}]
        ELSE IF e \notin r.allowed_paths
        THEN [r1 EXCEPT !.parent = parent_of(e), !.pc = "climb"]
        ELSE IF ~found_deep_glob_parent(r, e) /\ e # base
        THEN [r1 EXCEPT !.deep_globable_directories = @ \cup {e}]
        ELSE r1

\* one pass of the `while let Some(parent_path) = parent` loop
\* (detect_sources.rs:126-178), up to `deep.remove(parent_path)`
step_climb(r) ==
    IF r.parent = None
    THEN [r EXCEPT !.it = skip_current_dir(r.it, r.entry), !.pc = "next"]
    ELSE IF r.parent \in r.deep_globable_directories
    THEN [r EXCEPT !.deep_globable_directories = @ \ {r.parent}, !.pc = "demoted"]
    ELSE IF r.parent = base
    THEN [r EXCEPT !.it = skip_current_dir(r.it, r.entry), !.parent = None,
                   !.pc = "next"]
    ELSE [r EXCEPT !.shallow_globable_directories = @ \cup {r.parent},
                   !.parent = parent_of(r.parent)]

\* `shallow.insert(parent_path)` and the start of the re-scan
step_demoted(r) ==
    [r EXCEPT !.shallow_globable_directories = @ \cup {r.parent},
              !.child_it = WalkDirDepth1(r.tree, r.parent),
              !.pc = "rescan"]

\* a faulty re-scan that leaves the loop at once and promotes no child;
\* C7_IgnoredSibling fails with it
step_rescan_nothing(r) ==
    [r EXCEPT !.it = skip_current_dir(r.it, r.entry), !.child_it = << >>,
              !.child_entry = None, !.parent = None, !.pc = "next"]

\* one pass of the re-scan loop (detect_sources.rs:142-163), up to
\* `deep.insert(child_entry)`; leaving the loop leaves the climb as well
step_rescan(r) ==
    IF r.child_it = << >> \/ Head(r.child_it) = r.entry
    THEN [r EXCEPT !.it = skip_current_dir(r.it, r.entry), !.child_it = << >>,
                   !.child_entry = None, !.parent = None, !.pc = "next"]
    ELSE LET c == Head(r.child_it)
             r1 == [r EXCEPT !.child_it = Tail(r.child_it), !.child_entry = c]
         IN  IF c = r.parent \/ IsFilePath(c) THEN r1
             ELSE [r1 EXCEPT !.deep_globable_directories = @ \cup {c},
                             !.pc = "promoted"]

\* a faulty promotion that leaves the child in the shallow set;
\* C9_OutsidePromotion fails with it
step_promoted_keep_shallow(r) == [r EXCEPT !.pc = "rescan"]

\* `shallow.remove(child_entry)`
step_promoted(r) ==
    [r EXCEPT !.shallow_globable_directories = @ \ {r.child_entry}, !.pc = "rescan"]

\* the next statement of resolve()
resolve_step(r) ==
    CASE r.pc = "next" -> step_next(r)
      [] r.pc = "climb" -> step_climb(r)
      [] r.pc = "demoted" -> step_demoted(r)
      [] r.pc = "rescan" -> step_rescan(r)
      [] r.pc = "promoted" -> step_promoted(r)
      [] OTHER -> r

\* resolve() run to the end of its main loop
RECURSIVE resolve_loop(_)
resolve_loop(r) == IF r.pc = "done" THEN r ELSE resolve_loop(resolve_step(r))

\* format!("*/*.{{{}}}", extension_list)
shallow_glob(list) == "*/*.{" \o list \o "}"

\* format!("**/*.{{{}}}", extension_list)
deep_glob(list) == "**/*.{" \o list \o "}"

\* the patterns of the glob entries; the braces hold the list of the
\* known extensions
StarPattern == "*"
ShallowPattern == shallow_glob(extension_list(Range(KNOWN_EXTENSIONS)))
DeepPattern == deep_glob(extension_list(Range(KNOWN_EXTENSIONS)))

\* struct GlobEntry: the pattern is kept as the set of its alternatives, one
\* for an entry as pushed, several once optimize_patterns has joined the
\* patterns of one base into `{p1,p2}`
GlobEntry(b, pattern) == [base |-> b, patterns |-> {pattern}]

\* the glob entries resolve() returns (detect_sources.rs:236-250)
resolve_globs_of(r) ==
    LET list == extension_list(r.found_extensions)
    IN  {GlobEntry(d, shallow_glob(list)) : d \in r.shallow_globable_directories}
        \cup {GlobEntry(d, deep_glob(list)) : d \in r.deep_globable_directories}

\* resolve_globs(base, dirs) on the directory tree t
resolve_globs(t, dirs_) == resolve_globs_of(resolve_loop(GlobResolver_new(t, dirs_)))

(***************************************************************************)
(* One run of resolve(), statement by statement                            *)
(***************************************************************************)
\* the directories and files a tree handed to the resolver is made of
TreeUniverse ==
    {<<Code(".git")>>,
     <<Code("a")>>,
     <<Code("a"), Code(".git")>>,
     <<Code("a"), Code("a")>>,
     <<Code("a"), Code("a"), Code("a")>>,
     <<Code("a"), Code("a"), Code("b")>>,
     <<Code("a"), Code("b")>>,
     <<Code("a"), Code("b"), Code("a")>>,
     <<Code("a"), Code("c")>>,
     <<Code("a"), Code("c"), Code("a")>>,
     <<Code("a"), Code("x.html")>>,
     <<Code("b")>>,
     <<Code("public")>>,
     <<Code("public"), Code("a")>>,
     <<Code("public"), Code("a"), Code("a")>>,
     <<Code("public"), Code("x.html")>>}

IsGitDir(p) == p # base /\ IsDirPath(p) /\ FileName(p) = Code(".git")

\* a tree: the base and at most MaxDirs paths of the universe, each with its parent
Trees ==
    {t \cup {base} : t \in {u \in SUBSET TreeUniverse :
        /\ Cardinality(u) <= MaxDirs
        /\ \A p \in u : Parent(p) = base \/ Parent(p) \in u}}

\* the sets of visited directories the walker can hand over for tree t: the
\* base and directories whose parent was visited, never a .git directory.
\* What lies below a directory that was not visited, or below .git, is never
\* looked at by resolve(), so such directories are given no content
VisitedChoices(t) ==
    {v \in SUBSET {p \in t : IsDirPath(p) /\ ~IsGitDir(p)} :
        /\ base \in v
        /\ \A p \in v : p = base \/ Parent(p) \in v
        /\ \A p \in t : p = base \/ Parent(p) \in v}

InitResolve ==
    /\ \E t \in Trees : \E v \in VisitedChoices(t) : resolver = GlobResolver_new(t, v)
    /\ ignored_under_deep = {}
    /\ fs = [p \in {base} |-> 0]
    /\ fs_content = [p \in {} |-> {}]
    /\ now = 0
    /\ sources = {Auto}
    /\ git_markers = {}
    /\ gitignore_files = [level \in Levels |-> {}]
    /\ gitignore = {}
    /\ mtimes = [p \in {} |-> 0]
    /\ changed_content = {}
    /\ files = << >>
    /\ dirs = {}
    /\ globs = {}
    /\ candidates = {}
    /\ extracted = {}
    /\ lastOp = "new"
    /\ scanResult = NoResult
    /\ contentResult = NoResult
    /\ walk_admitted = {}
    /\ drained = {}
    /\ unreadable = {}
    /\ meta_err = {}
    /\ constructed = TRUE
    /\ directives = << >>
    /\ walker = NoWalker
    /\ input = NoInput
    /\ processed = NoResult
    /\ positions = NoResult
    /\ changes = 0

restVars == <<fs, fs_content, now, walkerVars, errorVars, positionVars, scannerVars, lastOp, changes>>

NextEntry ==
    /\ resolver.pc = "next"
    /\ resolver' = step_next(resolver)
    /\ ignored_under_deep' =
            IF resolver'.pc = "climb"
               /\ resolver'.parent \in resolver.deep_globable_directories
            THEN ignored_under_deep \cup {resolver'.entry}
            ELSE ignored_under_deep
    /\ UNCHANGED restVars

Climb ==
    /\ resolver.pc = "climb"
    /\ resolver' = step_climb(resolver)
    /\ UNCHANGED <<restVars, ignored_under_deep>>

Demoted ==
    /\ resolver.pc = "demoted"
    /\ resolver' = step_demoted(resolver)
    /\ UNCHANGED <<restVars, ignored_under_deep>>

Rescan ==
    /\ resolver.pc = "rescan"
    /\ resolver' = step_rescan(resolver)
    /\ UNCHANGED <<restVars, ignored_under_deep>>

Promoted ==
    /\ resolver.pc = "promoted"
    /\ resolver' = step_promoted(resolver)
    /\ UNCHANGED <<restVars, ignored_under_deep>>

NextResolve == NextEntry \/ Climb \/ Demoted \/ Rescan \/ Promoted

SpecResolve == InitResolve /\ [][NextResolve]_vars

(***************************************************************************)
(* Extraction and the candidate accumulator                                *)
(***************************************************************************)
\* a faulty sort that lists the candidates in descending order;
\* C3_FullSortedAccumulator fails with it
RECURSIVE par_sort_descending(_)
par_sort_descending(S) ==
    IF S = {} THEN << >>
    ELSE <<SetMax(S)>> \o par_sort_descending(S \ {SetMax(S)})

\* par_sort_unstable on a collection without duplicates
RECURSIVE par_sort_unstable(_)
par_sort_unstable(S) ==
    IF S = {} THEN << >>
    ELSE <<SetMin(S)>> \o par_sort_unstable(S \ {SetMin(S)})

\* a faulty reader that gives up on the whole batch when one file cannot be
\* read; C30_UnreadableSkipped fails with it
parse_all_files_or_nothing(changed) ==
    IF (changed \cap DOMAIN fs_content) \cap (unreadable \cup meta_err) # {}
    THEN {}
    ELSE UNION {fs_content[f] : f \in changed \cap DOMAIN fs_content}

\* parse_all_blobs(read_all_files(changed)) for File entries: a file that can
\* no longer be read is skipped
parse_all_files(changed) ==
    UNION {fs_content[f] : f \in (changed \cap DOMAIN fs_content) \ (unreadable \cup meta_err)}

\* a faulty filter that keeps the candidates the accumulator already holds;
\* C18_ContentDelta fails with it
new_candidates_unfiltered(found) == found

\* the candidates scan_content adds: those not already in the accumulator
new_candidates(found) == found \ candidates

\* a faulty par_extend that replaces the accumulator by the new candidates;
\* C2_Monotonic fails with it
par_extend_replace(acc, new) == new

\* self.candidates.par_extend(new_candidates)
par_extend(acc, new) == acc \cup new

\* a faulty scan() that returns the candidates this call added;
\* C4_RescanIdentical fails with it
scan_return_delta(acc, new) == par_sort_unstable(new)

\* what scan() returns once the accumulator holds acc
scan_return(acc, new) == par_sort_unstable(acc)

Scan ==
    \E w \in Walks :
        /\ constructed
        /\ Len(w.files) <= MaxFiles
        /\ drained' = w.changed_content
        /\ LET found == parse_all_files(w.changed_content)
               new == new_candidates(found)
           IN  /\ candidates' = par_extend(candidates, new)
               /\ extracted' = extracted \cup found
               /\ scanResult' = scan_return(par_extend(candidates, new), new)
        /\ mtimes' = w.mtimes
        /\ dirs' = w.dirs
        /\ files' = w.files
        /\ changed_content' = {}
        /\ walk_admitted' = w.admitted
        /\ lastOp' = IF lastOp \in {"scan", "rescan"} THEN "rescan" ELSE "scan"
        /\ UNCHANGED <<fs, fs_content, now, walkerVars, errorVars, positionVars, globs, contentResult,
                       changes, resolverVars>>

\* scan_content called by the host with one Content blob
ScanContent(blob) ==
    /\ constructed
    /\ LET new == new_candidates(blob)
       IN  /\ candidates' = par_extend(candidates, new)
           /\ contentResult' = par_sort_unstable(new)
    /\ extracted' = extracted \cup blob
    /\ lastOp' = "scan_content"
    /\ UNCHANGED <<fs, fs_content, now, walkerVars, errorVars, positionVars, mtimes, changed_content, files,
                   dirs, globs, scanResult,
                   walk_admitted, drained, changes, resolverVars>>

GetFiles ==
    \E w \in Walks :
        /\ constructed
        /\ Len(w.files) <= MaxFiles
        /\ mtimes' = w.mtimes
        /\ dirs' = w.dirs
        /\ files' = w.files
        /\ changed_content' = w.changed_content
        /\ walk_admitted' = w.admitted
        /\ lastOp' = "get_files"
        /\ UNCHANGED <<fs, fs_content, now, walkerVars, errorVars, positionVars, globs, candidates, extracted,
                       scanResult, contentResult, drained, changes, resolverVars>>

\* crate::glob::optimize_patterns: the entries are grouped by base and the
\* patterns of one base are joined into one entry
optimize_patterns(entries) ==
    {[base |-> b, patterns |-> UNION {g.patterns : g \in {h \in entries : h.base = b}}] :
        b \in {g.base : g \in entries}}

\* a faulty get_globs that resolves before it walks, from the directories
\* the earlier walks visited; C33_GetGlobsIdempotent fails with it
auto_globs_before_walk(dirs_) ==
    {GlobEntry(base, StarPattern)} \cup resolve_globs(DOMAIN fs, dirs)

\* the entries get_globs pushes for the Auto source on the base
\* (mod.rs:192-204), given the visited directories
auto_globs(dirs_) ==
    {GlobEntry(base, StarPattern)} \cup resolve_globs(DOMAIN fs, dirs_)

GetGlobs ==
    \E w \in Walks :
        /\ constructed
        /\ Len(w.files) <= MaxFiles
        /\ mtimes' = w.mtimes
        /\ dirs' = w.dirs
        /\ files' = w.files
        /\ changed_content' = w.changed_content
        /\ walk_admitted' = w.admitted
        /\ globs' = optimize_patterns(globs \cup UNION {auto_globs(w.dirs) :
                                        source \in {t \in sources : t.kind = "Auto"}})
        /\ lastOp' = "get_globs"
        /\ UNCHANGED <<fs, fs_content, now, walkerVars, errorVars, positionVars, candidates, extracted,
                       scanResult, contentResult, drained, changes, resolverVars>>

idle == [pc |-> "idle"]

Init ==
    /\ fs = [p \in {base} |-> 0]
    /\ fs_content = [p \in {} |-> {}]
    /\ now = 0
    /\ sources = {Auto}
    /\ git_markers = {}
    /\ \E lines \in IgnoreChoices :
           gitignore_files = [level \in Levels |-> IF level = 0 THEN lines ELSE {}]
    /\ gitignore = excluded_paths(sources, git_markers, gitignore_files)
    /\ mtimes = [p \in {} |-> 0]
    /\ changed_content = {}
    /\ files = << >>
    /\ dirs = {}
    /\ globs = {}
    /\ candidates = {}
    /\ extracted = {}
    /\ lastOp = "new"
    /\ scanResult = NoResult
    /\ contentResult = NoResult
    /\ walk_admitted = {}
    /\ drained = {}
    /\ unreadable = {}
    /\ meta_err = {}
    /\ constructed = TRUE
    /\ directives = << >>
    /\ walker = NoWalker
    /\ input = NoInput
    /\ processed = NoResult
    /\ positions = NoResult
    /\ changes = 0
    /\ resolver = idle
    /\ ignored_under_deep = {}

Next ==
    \/ \E f \in ScanFiles, c \in ContentChoices : CreateFile(f, c)
    \/ \E f \in ScanFiles, c \in ContentChoices : WriteFile(f, c)
    \/ \E f \in ScanFiles : DeleteFile(f)
    \/ Tick
    \/ Scan
    \/ \E blob \in BlobChoices : ScanContent(blob)
    \/ GetFiles
    \/ GetGlobs

Spec == Init /\ [][Next]_vars

(***************************************************************************)
(* Scanners built from directives, on a fixed tree                         *)
(***************************************************************************)
\* the directive lists Scanner::new can be given
SourceChoices ==
    {{Auto},
     {Auto, Pattern("*.styl")},
     {Auto, IgnoredPattern("a/b")},
     {Pattern("**/*.html")},
     {Pattern("**/*.html"), IgnoredPattern("a/x.html")},
     {Pattern("**/*.html"), IgnoredPattern("**/*.html")},
     {IgnoredPattern("a/x.html")},
     {IgnoredAuto},
     {}}

\* the .gitignore files of the root (level 0) and of the two directories above it
GitignoreChoices ==
    {g \in [Levels -> SUBSET {"a/b", "a/x.html", "x.html"}] :
        /\ g[0] \in {{}, {"a/b"}, {"a/x.html"}}
        /\ g[1] \in {{}, {"x.html"}}
        /\ g[2] \in {{}, {"x.html"}}}

\* what the extractor finds in each file of the fixed tree
SourceContent(f) ==
    CASE f = <<Code("a"), Code("x.html")>> -> {Cand("flex")}
      [] f = <<Code("a"), Code("foo.styl")>> -> {Cand("grid")}
      [] f = <<Code("a"), Code("b"), Code("x.html")>> -> {Cand("p-4")}

InitSources ==
    /\ fs = [p \in {base} \cup UNION {{SubSeq(f, 1, n) : n \in 1..Len(f)} : f \in SourceFiles} |-> 0]
    /\ fs_content = [f \in SourceFiles |-> SourceContent(f)]
    /\ now = 0
    /\ sources \in SourceChoices
    /\ git_markers \in SUBSET Levels
    /\ gitignore_files \in GitignoreChoices
    /\ gitignore = excluded_paths(sources, git_markers, gitignore_files)
    /\ mtimes = [p \in {} |-> 0]
    /\ changed_content = {}
    /\ files = << >>
    /\ dirs = {}
    /\ globs = {}
    /\ candidates = {}
    /\ extracted = {}
    /\ lastOp = "new"
    /\ scanResult = NoResult
    /\ contentResult = NoResult
    /\ walk_admitted = {}
    /\ drained = {}
    /\ unreadable = {}
    /\ meta_err = {}
    /\ constructed = TRUE
    /\ directives = << >>
    /\ walker = NoWalker
    /\ input = NoInput
    /\ processed = NoResult
    /\ positions = NoResult
    /\ changes = 0
    /\ resolver = idle
    /\ ignored_under_deep = {}

NextSources ==
    \/ Scan
    \/ \E blob \in BlobChoices : ScanContent(blob)
    \/ GetFiles
    \/ GetGlobs

SpecSources == InitSources /\ [][NextSources]_vars

(***************************************************************************)
(* Scanner::new on directives that may hold a malformed pattern            *)
(***************************************************************************)
\* the directive lists Scanner::new can be given
ConstructChoices ==
    {{Auto},
     {Auto, IgnoredPattern("[")},
     {Pattern("[")},
     {Pattern("**/*.html"), IgnoredPattern("[")},
     {Pattern("**/*.html"), IgnoredPattern("a/x.html")},
     {IgnoredPattern("[")},
     {IgnoredAuto, IgnoredPattern("[")}}

\* Scanner::new either panics in create_walker, and no Scanner exists, or
\* returns a Scanner whose walker holds the rules of the directives
InitConstruct ==
    /\ fs = [p \in {base} \cup PathUniverse_of(SourceFiles) |-> 0]
    /\ fs_content = [f \in SourceFiles |-> SourceContent(f)]
    /\ now = 0
    /\ sources \in ConstructChoices
    /\ git_markers \in SUBSET Levels
    /\ gitignore_files \in GitignoreChoices
    /\ constructed = ~create_walker_panics(sources)
    /\ gitignore = IF constructed /\ create_walker(sources).some
                   THEN excluded_paths(sources, git_markers, gitignore_files)
                   ELSE {}
    /\ mtimes = [p \in {} |-> 0]
    /\ changed_content = {}
    /\ files = << >>
    /\ dirs = {}
    /\ globs = {}
    /\ candidates = {}
    /\ extracted = {}
    /\ lastOp = "new"
    /\ scanResult = NoResult
    /\ contentResult = NoResult
    /\ walk_admitted = {}
    /\ drained = {}
    /\ unreadable = {}
    /\ meta_err = {}
    /\ directives = << >>
    /\ walker = NoWalker
    /\ input = NoInput
    /\ processed = NoResult
    /\ positions = NoResult
    /\ changes = 0
    /\ resolver = idle
    /\ ignored_under_deep = {}

NextConstruct ==
    \/ Scan
    \/ \E blob \in BlobChoices : ScanContent(blob)
    \/ GetFiles
    \/ GetGlobs

SpecConstruct == InitConstruct /\ [][NextConstruct]_vars

(***************************************************************************)
(* get_candidates_with_positions                                           *)
(*                                                                         *)
(* A content is a sequence of bytes, each written as a string of length 1; *)
(* offsets count from 0 as in the code.                                    *)
(***************************************************************************)
\* the substring the workaround replaces, and what it puts in its place
Needle == <<"-", "[", "]">>

Placeholder == <<"X", "Y", "Z">>

\* the pieces the inputs are put together from
Pieces == {Needle, Placeholder, <<"a">>, <<" ">>, <<".">>, <<"-">>, <<"[">>, <<"]">>, <<"X">>}

\* the concatenations of at most n pieces
RECURSIVE Contents(_)
Contents(n) ==
    IF n = 0 THEN {<< >>}
    ELSE Contents(n - 1) \cup {c \o q : c \in Contents(n - 1), q \in Pieces}

\* an extension without a pre-processor and one with a pre-processor
Extensions == {"html", "pug"}

\* &c[i..i + n]
Slice(c, i, n) == SubSeq(c, i + 1, i + n)

\* contains_str("-[]")
contains_str(c, needle) ==
    \E i \in 0..(Len(c) - Len(needle)) : Slice(c, i, Len(needle)) = needle

\* content.replace("-[]", "XYZ"): every occurrence, from the left
RECURSIVE replace(_)
replace(c) ==
    IF Len(c) < Len(Needle) THEN c
    ELSE IF Slice(c, 0, Len(Needle)) = Needle
    THEN Placeholder \o replace(SubSeq(c, Len(Needle) + 1, Len(c)))
    ELSE <<Head(c)>> \o replace(Tail(c))

\* Pug.process: the dots that chain class names are turned into spaces, byte
\* for byte
Pug_process(c) == [i \in 1..Len(c) |-> IF c[i] = "." THEN " " ELSE c[i]]

\* a faulty table that is looked up with the extension in small letters;
\* C39_ExactDispatch fails with it
pre_processor_lowercased(extension) ==
    CASE extension \in {"clj", "cljs", "cljc", "CLJ", "CLJS", "CLJC"} -> "Clojure"
      [] extension \in {"cshtml", "razor", "CSHTML", "RAZOR"} -> "Razor"
      [] extension \in {"haml", "HAML"} -> "Haml"
      [] extension \in {"json", "JSON"} -> "Json"
      [] extension \in {"pug", "PUG"} -> "Pug"
      [] extension \in {"rb", "erb", "RB", "ERB"} -> "Ruby"
      [] extension \in {"slim", "SLIM"} -> "Slim"
      [] extension \in {"svelte", "SVELTE"} -> "Svelte"
      [] extension \in {"vue", "VUE"} -> "Vue"
      [] OTHER -> "none"

\* the arm of `match extension` that is taken: the pre-processor it names,
\* "none" for the arm `_`
pre_processor(extension) ==
    CASE extension \in {"clj", "cljs", "cljc"} -> "Clojure"
      [] extension \in {"cshtml", "razor"} -> "Razor"
      [] extension = "haml" -> "Haml"
      [] extension = "json" -> "Json"
      [] extension = "pug" -> "Pug"
      [] extension \in {"rb", "erb"} -> "Ruby"
      [] extension = "slim" -> "Slim"
      [] extension = "svelte" -> "Svelte"
      [] extension = "vue" -> "Vue"
      [] OTHER -> "none"

\* pre_process_input: what the pre-processor of the extension makes of the
\* content, or the content as it is; of the pre-processors the model follows
\* Pug alone
pre_process_input(c, extension) ==
    CASE pre_processor(extension) = "Pug" -> Pug_process(c)
      [] pre_processor(extension) = "none" -> c

\* Extractor::extract from byte i on: the candidates are the runs of bytes
\* between blanks, each a slice of the content given as offset and length
RECURSIVE extract_from(_, _)
extract_from(c, i) ==
    IF i >= Len(c) THEN << >>
    ELSE IF c[i + 1] = " " THEN extract_from(c, i + 1)
    ELSE LET j == CHOOSE j \in (i + 1)..Len(c) :
                      /\ \A k \in (i + 1)..j : c[k] # " "
                      /\ j = Len(c) \/ c[j + 1] = " "
         IN  <<[offset |-> i, len |-> j - i]>> \o extract_from(c, j)

extract(c) == extract_from(c, 0)

\* a faulty choice that always returns the slice the extractor saw;
\* C21_PositionRoundTrip fails with it
candidate_text_as_parsed(original, parsed) == parsed

\* the text returned for a candidate: the slice of the original content if it
\* holds "-[]", else the slice the extractor saw
candidate_text(original, parsed) ==
    IF contains_str(original, Needle) THEN original ELSE parsed

\* Scanner::get_candidates_with_positions on ChangedContent::Content
get_candidates_with_positions(changed) ==
    LET original_content == pre_process_input(changed.content, changed.extension)
        content == replace(original_content)
        extracted_slices == extract(content)
    IN  [k \in 1..Len(extracted_slices) |->
            LET i == extracted_slices[k].offset
                n == extracted_slices[k].len
            IN  [token |-> candidate_text(Slice(original_content, i, n), Slice(content, i, n)),
                 offset |-> i]]

\* a faulty get_candidates_with_positions that empties the pending work
\* list; C36_ContentCallsSkipWalker fails with it
CandidatesWithPositions_draining(changed) ==
    /\ constructed
    /\ input' = changed
    /\ positions' = get_candidates_with_positions(changed)
    /\ changed_content' = {}
    /\ lastOp' = "positions"
    /\ UNCHANGED <<processed, fs, fs_content, now, walkerVars, errorVars, mtimes, files, dirs, globs,
                   candidates, scanResult, contentResult, walk_admitted, drained,
                   extracted, changes, resolverVars>>

\* Scanner::get_candidates_with_positions called with ChangedContent::Content
CandidatesWithPositions(changed) ==
    /\ constructed
    /\ input' = changed
    /\ positions' = get_candidates_with_positions(changed)
    /\ lastOp' = "positions"
    /\ UNCHANGED <<processed, fs, fs_content, now, walkerVars, errorVars, scannerVars,
                   changes, resolverVars>>

\* the host calls get_candidates_with_positions with the input, once
GetCandidatesWithPositions ==
    /\ lastOp = "new"
    /\ CandidatesWithPositions(input)

InitPositions ==
    /\ fs = [p \in {base} |-> 0]
    /\ fs_content = [f \in {} |-> {}]
    /\ now = 0
    /\ sources = {}
    /\ git_markers = {}
    /\ gitignore_files = [level \in Levels |-> {}]
    /\ gitignore = {}
    /\ mtimes = [p \in {} |-> 0]
    /\ changed_content = {}
    /\ files = << >>
    /\ dirs = {}
    /\ globs = {}
    /\ candidates = {}
    /\ extracted = {}
    /\ lastOp = "new"
    /\ scanResult = NoResult
    /\ contentResult = NoResult
    /\ walk_admitted = {}
    /\ drained = {}
    /\ unreadable = {}
    /\ meta_err = {}
    /\ constructed = TRUE
    /\ directives = << >>
    /\ walker = NoWalker
    /\ input \in [content : Contents(MaxPieces), extension : Extensions]
    /\ processed = NoResult
    /\ positions = << >>
    /\ changes = 0
    /\ resolver = idle
    /\ ignored_under_deep = {}

NextPositions == GetCandidatesWithPositions

SpecPositions == InitPositions /\ [][NextPositions]_vars

(***************************************************************************)
(* pre_process_input on contents and extensions of either letter case      *)
(***************************************************************************)
\* the extensions the pre-processor is called with: one without a
\* pre-processor, one with a pre-processor, and that one in capitals
PreProcessExtensions == {"html", "pug", "PUG"}

\* read_changed_content on ChangedContent::Content(contents, extension):
\* the bytes of the contents go through pre_process_input
PreProcessInput ==
    /\ lastOp = "new"
    /\ processed' = [by |-> pre_processor(input.extension),
                     bytes |-> pre_process_input(input.content, input.extension)]
    /\ lastOp' = "pre_process"
    /\ UNCHANGED <<fs, fs_content, now, walkerVars, errorVars, scannerVars,
                   input, positions, changes, resolverVars>>

InitPreProcess ==
    /\ fs = [p \in {base} |-> 0]
    /\ fs_content = [f \in {} |-> {}]
    /\ now = 0
    /\ sources = {}
    /\ git_markers = {}
    /\ gitignore_files = [level \in Levels |-> {}]
    /\ gitignore = {}
    /\ mtimes = [p \in {} |-> 0]
    /\ changed_content = {}
    /\ files = << >>
    /\ dirs = {}
    /\ globs = {}
    /\ candidates = {}
    /\ extracted = {}
    /\ lastOp = "new"
    /\ scanResult = NoResult
    /\ contentResult = NoResult
    /\ walk_admitted = {}
    /\ drained = {}
    /\ unreadable = {}
    /\ meta_err = {}
    /\ constructed = TRUE
    /\ directives = << >>
    /\ walker = NoWalker
    /\ input \in [content : Contents(MaxPieces), extension : PreProcessExtensions]
    /\ processed = NoResult
    /\ positions = NoResult
    /\ changes = 0
    /\ resolver = idle
    /\ ignored_under_deep = {}

NextPreProcess == PreProcessInput

SpecPreProcess == InitPreProcess /\ [][NextPreProcess]_vars

(***************************************************************************)
(* create_walker on a list of source entries with two bases                *)
(*                                                                         *)
(* The second base lies beside the first (../public): the directories      *)
(* above the first base are above it too, the first base itself is not.    *)
(***************************************************************************)
\* the path component `..`
DotDot == 0

other_base == <<DotDot, Code("public")>>

Bases == {base, other_base}

AutoAt(b) == [kind |-> "Auto", base |-> b, pattern |-> "**/*"]

PatternAt(b, pat) == [kind |-> "Pattern", base |-> b, pattern |-> pat]

\* the source entries a list is made of
DirectiveChoices ==
    {Auto, AutoAt(other_base), Pattern("**/*.html"), PatternAt(other_base, "**/*.html"),
     IgnoredPattern("**/*.html"), IgnoredPattern("a/x.html")}

\* the lists of at most n source entries
RECURSIVE DirectiveLists(_)
DirectiveLists(n) ==
    IF n = 0 THEN {<< >>}
    ELSE DirectiveLists(n - 1)
         \cup {Append(l, d) : l \in {k \in DirectiveLists(n - 1) : Len(k) = n - 1},
                              d \in DirectiveChoices}

\* the line a source entry adds to the ignores of its base
line_of(source) == [whitelist |-> source.kind = "Pattern", pattern |-> source.pattern]

\* a faulty insert that keeps the lines in the order they arrive, as a Vec
\* would; C34_OrderIndependent fails with it
btree_insert_push(lines, l) == Append(lines, l)

\* BTreeSet<String>::insert, the set written as the list of its lines in
\* ascending order
RECURSIVE btree_insert(_, _)
btree_insert(lines, l) ==
    IF lines = << >> THEN <<l>>
    ELSE IF Head(lines) = l THEN lines
    ELSE IF line_rank(l) < line_rank(Head(lines)) THEN <<l>> \o lines
    ELSE <<Head(lines)>> \o btree_insert(Tail(lines), l)

\* one turn of `for source in sources.iter()`; a base without lines stands
\* for a base the BTreeMap has no entry for
collect_step(acc, source) ==
    [roots |-> IF source.kind \in {"Auto", "Pattern"}
               THEN acc.roots \cup {source.base} ELSE acc.roots,
     ignores |-> IF source.kind = "Auto" THEN acc.ignores
                 ELSE [acc.ignores EXCEPT
                          ![source.base] = btree_insert(@, line_of(source))]]

\* create_walker: roots and ignores after the loop over the list
RECURSIVE collect(_)
collect(list) ==
    IF list = << >> THEN [roots |-> {}, ignores |-> [b \in Bases |-> << >>]]
    ELSE collect_step(collect(SubSeq(list, 1, Len(list) - 1)), list[Len(list)])

\* the .git markers found on the way up from a base
markers_above(b) == IF b = base THEN git_markers ELSE git_markers \ {0}

\* the verdict of the Gitignore built from the lines of one base: the last
\* line that matches decides
gitignore_verdict(lines, p) ==
    LET hits == {i \in DOMAIN lines : line_matches(lines[i].pattern, p)}
    IN  IF hits = {} THEN "none"
        ELSE IF lines[SetMax(hits)].whitelist THEN "whitelist" ELSE "ignore"

\* roots.into_iter().next(): roots is an FxHashSet, whose iteration order
\* follows the hashes of the paths and not the order of insertion; any root
\* can come first
first_roots(list) == collect(list).roots

\* create_walker: every walker it can build from the list
create_walker_of(list) ==
    LET c == collect(list)
    IN  IF c.roots = {}
        THEN {[some |-> FALSE, roots |-> {}, ignores |-> [b \in Bases |-> << >>],
               first_root |-> base, require_git |-> FALSE]}
        ELSE {[some |-> TRUE, roots |-> c.roots, ignores |-> c.ignores,
               first_root |-> r, require_git |-> require_git(markers_above(r))] :
                 r \in first_roots(list)}

\* Scanner::new: the walker is built from the list
CreateWalker ==
    /\ ~constructed
    /\ walker' \in create_walker_of(directives)
    /\ sources' = Range(directives)
    /\ constructed' = TRUE
    /\ UNCHANGED <<fs, fs_content, now, gitignore, git_markers, gitignore_files,
                   directives, errorVars, positionVars, scannerVars, lastOp, changes,
                   resolverVars>>

InitWalker ==
    /\ fs = [p \in {base} |-> 0]
    /\ fs_content = [f \in {} |-> {}]
    /\ now = 0
    /\ sources = {}
    /\ git_markers \in SUBSET Levels
    /\ gitignore_files = [level \in Levels |-> {}]
    /\ gitignore = {}
    /\ mtimes = [p \in {} |-> 0]
    /\ changed_content = {}
    /\ files = << >>
    /\ dirs = {}
    /\ globs = {}
    /\ candidates = {}
    /\ extracted = {}
    /\ lastOp = "new"
    /\ scanResult = NoResult
    /\ contentResult = NoResult
    /\ walk_admitted = {}
    /\ drained = {}
    /\ unreadable = {}
    /\ meta_err = {}
    /\ constructed = FALSE
    /\ directives \in DirectiveLists(MaxDirectives)
    /\ walker = NoWalker
    /\ input = NoInput
    /\ processed = NoResult
    /\ positions = NoResult
    /\ changes = 0
    /\ resolver = idle
    /\ ignored_under_deep = {}

NextWalker == CreateWalker

SpecWalker == InitWalker /\ [][NextWalker]_vars

(***************************************************************************)
(* The change filter on a tree with arbitrary modification times           *)
(***************************************************************************)
\* the files of the tree, one and two directories below the base
FilterFiles == {f \in ScanFiles : Len(f) > 1}

\* the tree: the files and the directories above them
FilterTree == {base} \cup PathUniverse_of(FilterFiles)

InitFilter ==
    /\ fs \in {t \in [FilterTree -> Times] : t[base] = 0}
    /\ fs_content = [f \in FilterFiles |-> {Cand("flex")}]
    /\ now = 0
    /\ sources = {Auto}
    /\ git_markers = {}
    /\ gitignore_files = [level \in Levels |-> {}]
    /\ gitignore = {}
    /\ mtimes = [p \in {} |-> 0]
    /\ changed_content = {}
    /\ files = << >>
    /\ dirs = {}
    /\ globs = {}
    /\ candidates = {}
    /\ extracted = {}
    /\ lastOp = "new"
    /\ scanResult = NoResult
    /\ contentResult = NoResult
    /\ walk_admitted = {}
    /\ drained = {}
    /\ unreadable = {}
    /\ meta_err = {}
    /\ constructed = TRUE
    /\ directives = << >>
    /\ walker = NoWalker
    /\ input = NoInput
    /\ processed = NoResult
    /\ positions = NoResult
    /\ changes = 0
    /\ resolver = idle
    /\ ignored_under_deep = {}

NextFilter ==
    \/ \E f \in FilterFiles, t \in Times, c \in ContentChoices : SetFileTime(f, t, c)
    \/ Scan
    \/ GetFiles

SpecFilter == InitFilter /\ [][NextFilter]_vars

(***************************************************************************)
(* Reads and metadata calls that fail                                      *)
(***************************************************************************)
\* the files of the tree: one in the base, one in a directory
ErrorFiles == {f \in ScanFiles : Len(f) < 3}

\* what the extractor finds in each of them
ErrorContent(f) == IF Len(f) = 1 THEN {Cand("flex")} ELSE {Cand("grid"), Cand("p-4")}

\* std::fs::read starts to fail on the file (its permissions change; its
\* modification time does not)
FailRead(f) ==
    /\ f \in DOMAIN fs_content
    /\ f \notin unreadable
    /\ unreadable' = unreadable \cup {f}
    /\ changes < MaxChanges
    /\ changes' = changes + 1
    /\ lastOp' = "fs"
    /\ UNCHANGED <<fs, fs_content, now, walkerVars, meta_err, positionVars, scannerVars,
                   resolverVars>>

\* metadata() starts to fail on the file
FailMetadata(f) ==
    /\ f \in DOMAIN fs_content
    /\ f \notin meta_err
    /\ meta_err' = meta_err \cup {f}
    /\ changes < MaxChanges
    /\ changes' = changes + 1
    /\ lastOp' = "fs"
    /\ UNCHANGED <<fs, fs_content, now, walkerVars, unreadable, positionVars, scannerVars,
                   resolverVars>>

\* scan_content called by the host with File entries
ScanContentFiles(batch) ==
    /\ constructed
    /\ LET found == parse_all_files(batch)
           new == new_candidates(found)
       IN  /\ candidates' = par_extend(candidates, new)
           /\ contentResult' = par_sort_unstable(new)
           /\ extracted' = extracted \cup found
    /\ lastOp' = "scan_content"
    /\ UNCHANGED <<fs, fs_content, now, walkerVars, errorVars, positionVars, mtimes,
                   changed_content, files, dirs, globs, scanResult,
                   walk_admitted, drained, changes, resolverVars>>

InitErrors ==
    /\ fs = [p \in {base} \cup PathUniverse_of(ErrorFiles) |-> 0]
    /\ fs_content = [f \in ErrorFiles |-> ErrorContent(f)]
    /\ now = 0
    /\ sources = {Auto}
    /\ git_markers = {}
    /\ gitignore_files = [level \in Levels |-> {}]
    /\ gitignore = {}
    /\ mtimes = [p \in {} |-> 0]
    /\ changed_content = {}
    /\ files = << >>
    /\ dirs = {}
    /\ globs = {}
    /\ candidates = {}
    /\ extracted = {}
    /\ lastOp = "new"
    /\ scanResult = NoResult
    /\ contentResult = NoResult
    /\ walk_admitted = {}
    /\ drained = {}
    /\ unreadable = {}
    /\ meta_err = {}
    /\ constructed = TRUE
    /\ directives = << >>
    /\ walker = NoWalker
    /\ input = NoInput
    /\ processed = NoResult
    /\ positions = NoResult
    /\ changes = 0
    /\ resolver = idle
    /\ ignored_under_deep = {}

NextErrors ==
    \/ \E f \in ErrorFiles : FailRead(f)
    \/ \E f \in ErrorFiles : FailMetadata(f)
    \/ \E f \in ErrorFiles : WriteFile(f, ErrorContent(f))
    \/ Tick
    \/ Scan
    \/ ScanContentFiles(ErrorFiles)

SpecErrors == InitErrors /\ [][NextErrors]_vars

(***************************************************************************)
(* The calls that take content from the host, between walks                *)
(***************************************************************************)
\* the inputs of get_candidates_with_positions: one piece, either extension
FrameInputs == [content : Contents(1), extension : Extensions]

InitFrame ==
    /\ fs = [p \in {base} \cup PathUniverse_of(ErrorFiles) |-> 0]
    /\ fs_content = [f \in ErrorFiles |-> ErrorContent(f)]
    /\ now = 0
    /\ sources = {Auto}
    /\ git_markers = {}
    /\ gitignore_files = [level \in Levels |-> {}]
    /\ gitignore = {}
    /\ mtimes = [p \in {} |-> 0]
    /\ changed_content = {}
    /\ files = << >>
    /\ dirs = {}
    /\ globs = {}
    /\ candidates = {}
    /\ extracted = {}
    /\ lastOp = "new"
    /\ scanResult = NoResult
    /\ contentResult = NoResult
    /\ walk_admitted = {}
    /\ drained = {}
    /\ unreadable = {}
    /\ meta_err = {}
    /\ constructed = TRUE
    /\ directives = << >>
    /\ walker = NoWalker
    /\ input = NoInput
    /\ processed = NoResult
    /\ positions = << >>
    /\ changes = 0
    /\ resolver = idle
    /\ ignored_under_deep = {}

NextFrame ==
    \/ Scan
    \/ GetFiles
    \/ GetGlobs
    \/ \E blob \in BlobChoices : ScanContent(blob)
    \/ ScanContentFiles(ErrorFiles)
    \/ \E changed \in FrameInputs : CandidatesWithPositions(changed)

SpecFrame == InitFrame /\ [][NextFrame]_vars

(***************************************************************************)
(* Properties of GlobResolver::resolve (checked under SpecResolve)         *)
(***************************************************************************)
ResolvePcs == {"next", "climb", "demoted", "rescan", "promoted", "done"}

Resolving == resolver.pc \in ResolvePcs

deep == resolver.deep_globable_directories

shallow == resolver.shallow_globable_directories

forced_static == resolver.forced_static_directories

TreeDirs == {p \in resolver.tree : IsDirPath(p)}

\* the directories of the tree the walker did not visit, .git aside (resolve()
\* never asks whether a .git directory was visited)
IgnoredDirs == {d \in TreeDirs : d # base /\ ~IsGitDir(d) /\ d \notin resolver.allowed_paths}

\* the ignored directories resolve() meets: those whose parent it walks into
ReachedIgnoredDirs ==
    {d \in IgnoredDirs :
        /\ Parent(d) \in resolver.allowed_paths
        /\ \A n \in 1..(Len(d) - 1) :
              /\ ~IsGitDir(SubSeq(d, 1, n))
              /\ SubSeq(d, 1, n) \notin forced_static}

AtMostOneClass ==
    /\ deep \cap shallow = {}
    /\ deep \cap forced_static = {}
    /\ shallow \cap forced_static = {}

C10_NoDeepBelowDeep ==
    Resolving => \A d \in deep : \A a \in deep : ~IsProperPrefix(a, d)

\* a run that promoted, demoted and re-scanned, and ended with a deep
\* directory below a demoted one
C10_Witness ==
    /\ Resolving
    /\ resolver.pc = "done"
    /\ ignored_under_deep # {}
    /\ \E d \in deep : \E a \in shallow : IsProperPrefix(a, d)
    /\ Cardinality(deep) >= 2

\* the directories on the way from the top-level directory of d down to its parent
PathToParent(d) == {SubSeq(d, 1, n) : n \in 1..(Len(d) - 1)}

\* the other direct subdirectories of the parent of d
SiblingDirs(d) == {s \in TreeDirs : s # base /\ s # d /\ Parent(s) = Parent(d)}

\* C8: when the only ignored directory D lies two or more levels below a
\* top-level directory T, every directory from T down to the parent of D is in
\* the shallow set and not in the deep set, and every non-ignored sibling
\* directory of D is in the deep set
C8_DeeplyNestedIgnored ==
    (Resolving /\ resolver.pc = "done") =>
        \A D \in ReachedIgnoredDirs :
            (IgnoredDirs = {D} /\ Len(D) >= 3) =>
                /\ \A p \in PathToParent(D) : p \in shallow /\ p \notin deep
                /\ \A s \in SiblingDirs(D) : ~IsGitDir(s) => s \in deep

\* C6: for every ignored directory D, no deep glob has a base that is an
\* ancestor of D and no shallow glob has a base that is the parent of D
C6_NoGlobOverIgnored ==
    (Resolving /\ resolver.pc = "done") =>
        \A D \in IgnoredDirs :
            /\ \A g \in resolve_globs_of(resolver) :
                  DeepPattern \in g.patterns => ~IsProperPrefix(g.base, D)
            /\ \A g \in resolve_globs_of(resolver) :
                  ShallowPattern \in g.patterns => g.base # Parent(D)

\* C7 as stated: when resolve() reaches an ignored directory D whose parent P
\* is in the deep set, then after resolve() P is shallow and not deep, and
\* every other direct subdirectory of P is in the deep set
C7_EveryOtherSubdirectory ==
    (Resolving /\ resolver.pc = "done") =>
        \A D \in ignored_under_deep :
            /\ Parent(D) \in shallow
            /\ Parent(D) \notin deep
            /\ \A s \in SiblingDirs(D) : s \in deep

\* the walker visited s and every directory beneath it, .git directories aside
VisitedThroughout(s) ==
    /\ s \in resolver.allowed_paths
    /\ \A q \in TreeDirs :
          (IsProperPrefix(s, q) /\ ~IsGitDir(q)) => q \in resolver.allowed_paths

\* C7, amended: when resolve() reaches an ignored directory D whose parent P
\* is in the deep set, then after resolve() P is shallow and not deep, every
\* direct subdirectory of P that sorts before D is in the deep set, and a
\* direct subdirectory of P that sorts after D is in the deep set exactly when
\* the walker visited it and every directory beneath it (.git aside)
C7_IgnoredSibling ==
    (Resolving /\ resolver.pc = "done") =>
        \A D \in ignored_under_deep :
            /\ Parent(D) \in shallow
            /\ Parent(D) \notin deep
            /\ \A s \in SiblingDirs(D) :
                  IF sort_by_dir_and_name(s, D)
                  THEN s \in deep
                  ELSE s \in deep <=> VisitedThroughout(s)

\* an ignored directory met under a deep parent, with a sibling before it and
\* a sibling after it that holds an ignored directory of its own
C7_Witness ==
    /\ Resolving
    /\ resolver.pc = "done"
    /\ \E D \in ignored_under_deep :
          /\ \E s \in SiblingDirs(D) : sort_by_dir_and_name(s, D) /\ ~IsGitDir(s)
          /\ \E s \in SiblingDirs(D) :
                /\ sort_by_dir_and_name(D, s)
                /\ s \in resolver.allowed_paths
                /\ ~VisitedThroughout(s)

(***************************************************************************)
(* Properties of the Scanner (checked under Spec)                          *)
(***************************************************************************)
\* no ignore rule excludes the file or a directory above it
NonIgnored(f) == \A n \in 1..Len(f) : SubSeq(f, 1, n) \notin gitignore

\* the step is a call of scan()
IsScanStep == lastOp' \in {"scan", "rescan"} /\ now' = now

Scanned == lastOp \in {"scan", "rescan"}

\* the modification time of f is later than every time the walker recorded
LaterThanRecorded(f) == \A p \in DOMAIN mtimes : fs[f] > mtimes[p]

\* the next scan() admits f and returns the candidates of f
PickedUp(f) == f \in walk_admitted' /\ fs_content[f] \subseteq Range(scanResult')

\* C1 as stated: after a completed scan(), a non-ignored file that was created
\* (the walker has no record of it), or rewritten with a modification time
\* later than every recorded time, is admitted by the next scan(), which
\* returns its candidates
C1_CreatedOrRewritten ==
    [][(scanResult # NoResult /\ IsScanStep) =>
          \A f \in DOMAIN fs :
              (IsFilePath(f) /\ NonIgnored(f)
               /\ (f \notin DOMAIN mtimes \/ LaterThanRecorded(f))) => PickedUp(f)]_vars

\* C1, amended: after a completed scan(), a non-ignored file that was created
\* or rewritten with a modification time strictly later than every time
\* recorded so far, at any depth, is admitted by the next scan(), which
\* returns its candidates
C1_IncrementalPickup ==
    [][(scanResult # NoResult /\ IsScanStep) =>
          \A f \in DOMAIN fs :
              (IsFilePath(f) /\ NonIgnored(f) /\ LaterThanRecorded(f)) => PickedUp(f)]_vars

\* a scan() admitted a file two levels down whose change did not touch the
\* modification time of a directory above it that an earlier walk had recorded
C1_Witness ==
    /\ Scanned
    /\ \E f \in walk_admitted :
          /\ Len(f) = 3
          /\ fs_content[f] \subseteq Range(scanResult)
          /\ \E d \in DOMAIN mtimes :
                /\ IsDirPath(d)
                /\ IsProperPrefix(d, f)
                /\ Len(d) = 1
                /\ fs[d] < fs[f]
                /\ mtimes[d] = fs[f]

\* C2: the list a scan() returns is a superset of the list every earlier
\* scan() returned, and no operation removes a candidate from the accumulator
C2_Monotonic ==
    [][/\ candidates \subseteq candidates'
       /\ (scanResult # NoResult /\ scanResult' # NoResult) =>
              Range(scanResult) \subseteq Range(scanResult')]_vars

\* a scan() returned a candidate that no file holds any more
C2_Witness ==
    /\ Scanned
    /\ Cand("grid") \in Range(scanResult)
    /\ \A f \in DOMAIN fs_content : Cand("grid") \notin fs_content[f]

\* C3: scan() returns exactly the candidates accumulated so far, those of
\* earlier scan_content() calls included, each once, in ascending order
C3_FullSortedAccumulator ==
    Scanned =>
        /\ Range(scanResult) = candidates
        /\ candidates = extracted
        /\ \A i, j \in DOMAIN scanResult : i < j => scanResult[i] < scanResult[j]

\* a scan() returned several candidates, one of them added by scan_content()
\* only
C3_Witness ==
    /\ Scanned
    /\ Len(scanResult) >= 2
    /\ contentResult # NoResult
    /\ Cand("p-4") \in Range(contentResult)
    /\ Cand("p-4") \in Range(scanResult)
    /\ \A f \in DOMAIN fs_content : Cand("p-4") \notin fs_content[f]

\* C4: a scan() that follows a scan() with no filesystem change in between
\* returns the identical list and adds nothing to the accumulator
C4_RescanIdentical ==
    [][(IsScanStep /\ lastOp' = "rescan") =>
          /\ scanResult' = scanResult
          /\ candidates' = candidates]_vars

\* the second of two consecutive scans returned a list of candidates of files
C4_Witness ==
    /\ lastOp = "rescan"
    /\ scanResult # << >>
    /\ DOMAIN fs_content # {}
    /\ walk_admitted = {}

\* the file name ends in one of the known extensions (html is one, txt is not)
KnownExtension(name) == name = Code("x.html")

\* glob matching of one pattern below base b: `*` matches the entries directly
\* in b, `*/*.{..}` the files with a known extension one directory below b,
\* `**/*.{..}` the files with a known extension at any depth below b
PatternMatches(b, pattern, f) ==
    CASE pattern = StarPattern -> Len(f) = Len(b) + 1 /\ IsPrefix(b, f)
      [] pattern = ShallowPattern ->
            Len(f) = Len(b) + 2 /\ IsPrefix(b, f) /\ KnownExtension(FileName(f))
      [] pattern = DeepPattern ->
            IsProperPrefix(b, f) /\ KnownExtension(FileName(f))
      [] OTHER -> FALSE

\* a glob entry matches f when one of the alternatives of its pattern does
GlobMatches(g, f) == \E pattern \in g.patterns : PatternMatches(g.base, pattern, f)

\* C5: every path get_files() returns is matched by at least one entry
\* get_globs() returns on the same Scanner, files directly inside a
\* shallow-globable directory included
C5_GlobCoverage ==
    lastOp = "get_globs" =>
        \A f \in Range(files) : \E g \in globs : GlobMatches(g, f)

\* the step is a call of scan_content()
IsScanContentStep == lastOp' = "scan_content" /\ now' = now

\* C18: scan_content(c) returns exactly the candidates of c that were not in
\* the accumulator, sorted and each once; afterwards the accumulator is the
\* old one united with the returned list, and an immediate second
\* scan_content(c) returns the empty list
C18_ContentDelta ==
    [][IsScanContentStep =>
          /\ \E c \in BlobChoices : Range(contentResult') = c \ candidates
          /\ \A i, j \in DOMAIN contentResult' :
                i < j => contentResult'[i] < contentResult'[j]
          /\ candidates' = candidates \cup Range(contentResult')
          /\ lastOp = "scan_content" => contentResult' = << >>]_vars

\* scan_content() returned part of what its blob holds, the rest being in the
\* accumulator already
C18_Witness ==
    /\ lastOp = "scan_content"
    /\ contentResult = <<Cand("p-4")>>
    /\ Cand("flex") \in candidates

(***************************************************************************)
(* Further properties of GlobResolver::resolve (checked under SpecResolve) *)
(***************************************************************************)
PublicDir == <<Code("public")>>

\* the path is <base>/public or lies below it
UnderPublic(p) == IsPrefix(PublicDir, p)

\* the path is a .git directory or lies below one
UnderGit(p) == \E n \in 1..Len(p) : p[n] = Code(".git")

\* C11: <base>/public is forced-static recursively: no directory at or below
\* it is ever in the deep or the shallow set, whatever it holds, and handling
\* an entry inside it changes neither set
C11_PublicForcedStatic ==
    /\ [](Resolving => \A d \in deep \cup shallow : ~UnderPublic(d))
    /\ [][(Resolving /\ resolver'.entry # None /\ UnderPublic(resolver'.entry)) =>
             /\ resolver'.deep_globable_directories = deep
             /\ resolver'.shallow_globable_directories = shallow]_vars

\* resolve() went through a public directory that holds a visited directory
\* with an unvisited directory of its own, next to a directory that became
\* deep
C11_Witness ==
    /\ Resolving
    /\ resolver.pc = "done"
    /\ \E d \in IgnoredDirs : Len(d) = 3 /\ UnderPublic(d)
    /\ deep # {}

\* C12: no .git directory and no directory beneath one is ever placed in the
\* deep or the shallow set, the re-scan of a demoted parent included
C12_GitNeverClassified ==
    Resolving => \A d \in deep \cup shallow : ~UnderGit(d)

\* the entries get_globs() has pushed for the Auto source once resolve() has
\* returned, after optimize_patterns
pushed_globs(r) ==
    optimize_patterns({GlobEntry(base, StarPattern)} \cup resolve_globs_of(r))

\* the direct subdirectories of the base other than .git and public
TopLevelDirs ==
    {d \in TreeDirs : Len(d) = 1 /\ ~IsGitDir(d) /\ d # PublicDir}

\* C13: when no directory is ignored, the globs are exactly `*` at the base
\* and one deep glob for each direct subdirectory of the base other than .git
\* and public
C13_NothingIgnored ==
    (Resolving /\ resolver.pc = "done" /\ IgnoredDirs = {}) =>
        pushed_globs(resolver) =
            {[base |-> base, patterns |-> {StarPattern}]}
            \cup {[base |-> d, patterns |-> {DeepPattern}] : d \in TopLevelDirs}

\* nothing was ignored in a tree with .git, public and a directory holding a
\* directory
C13_Witness ==
    /\ Resolving
    /\ resolver.pc = "done"
    /\ IgnoredDirs = {}
    /\ PublicDir \in TreeDirs
    /\ <<Code(".git")>> \in TreeDirs
    /\ \E d \in TreeDirs : Len(d) = 2 /\ ~UnderPublic(d) /\ ~UnderGit(d)

\* C19: every glob entry resolve() returns has as base a directory the walker
\* visited, never an ignored one, and one of the two fixed patterns
C19_VisitedBases ==
    (Resolving /\ resolver.pc = "done") =>
        \A g \in resolve_globs_of(resolver) :
            /\ g.base \in resolver.allowed_paths
            /\ g.base \notin IgnoredDirs
            /\ IsPrefix(base, g.base)
            /\ g.patterns \subseteq {ShallowPattern, DeepPattern}

\* the files below <base>/public that the walker admitted
PublicFiles ==
    {f \in resolver.tree :
        IsFilePath(f) /\ UnderPublic(f) /\ Parent(f) \in resolver.allowed_paths}

\* C20: for every admitted file below <base>/public the resolver emits a
\* glob entry that matches it
C20_PublicFilesEmitted ==
    (Resolving /\ resolver.pc = "done") =>
        \A f \in PublicFiles : \E g \in resolve_globs_of(resolver) : GlobMatches(g, f)

(***************************************************************************)
(* Properties of Scanners built from directives (checked under SpecSources)*)
(***************************************************************************)
\* the directives hold no Auto and no Pattern entry
NoAutoOrPattern == \A s \in sources : s.kind \notin {"Auto", "Pattern"}

\* C17 as stated: when the directives hold no Auto and no Pattern entry,
\* scan(), get_files() and get_globs() return empty results whatever
\* operations were called before.
C17_DisarmedAllEmpty ==
    NoAutoOrPattern =>
        /\ lastOp \in {"scan", "rescan"} => scanResult = << >>
        /\ files = << >>
        /\ globs = {}

\* C17, amended: when the directives hold no Auto and no Pattern entry, no
\* operation walks the filesystem: get_files() and get_globs() return empty
\* lists, no directory or time is recorded, and scan() returns the sorted list
\* of exactly the candidates that scan_content calls have added, which is
\* empty when there was none.
C17_DisarmedReturnsContentOnly ==
    NoAutoOrPattern =>
        /\ files = << >>
        /\ globs = {}
        /\ dirs = {}
        /\ DOMAIN mtimes = {}
        /\ walk_admitted = {}
        /\ candidates = extracted
        /\ extracted \subseteq UNION BlobChoices
        /\ lastOp \in {"scan", "rescan"} =>
              /\ Range(scanResult) = extracted
              /\ \A i, j \in DOMAIN scanResult : i < j => scanResult[i] < scanResult[j]

C17_Witness ==
    /\ NoAutoOrPattern
    /\ sources # {}
    /\ lastOp = "scan"
    /\ scanResult = <<Cand("flex"), Cand("p-4")>>
    /\ DOMAIN fs_content # {}

\* the files that match a non-negated pattern directive of the sources
Whitelisted ==
    {f \in SourceFiles :
        \E s \in sources : s.kind = "Pattern" /\ line_matches(s.pattern, f)}

\* the files that match a negated directive of the sources
Negated ==
    {f \in SourceFiles :
        \E s \in sources : /\ s.kind \in {"IgnoredPattern", "IgnoredAuto"}
                            /\ line_matches(s.pattern, f)}

\* C14: a file that matches both a non-negated pattern directive and a negated
\* directive on the same base is never admitted by the walker, never in the
\* list get_files() returns, and no scan() adds a candidate that only such a
\* file holds.
C14_NegatedWins ==
    /\ [](\A f \in Whitelisted \cap Negated :
              f \notin walk_admitted /\ f \notin Range(files))
    /\ [][lastOp' \in {"scan", "rescan"} =>
              Range(scanResult') \subseteq
                  candidates \cup UNION {fs_content[g] :
                                            g \in SourceFiles \ (Whitelisted \cap Negated)}]_vars

C14_Witness ==
    /\ sources = {Pattern("**/*.html"), IgnoredPattern("a/x.html")}
    /\ <<Code("a"), Code("x.html")>> \in Whitelisted \cap Negated
    /\ gitignore_files = [level \in Levels |-> {}]
    /\ lastOp = "get_files"
    /\ files = << <<Code("a"), Code("b"), Code("x.html")>> >>

\* a .gitignore file in force or the default rules exclude the file or a
\* directory above it
RuleExcluded(f) ==
    \E n \in 1..Len(f) :
        \/ gitignore_match(SubSeq(f, 1, n), git_markers, gitignore_files)
        \/ default_ignored(SubSeq(f, 1, n))

\* the walker's rules exclude no directory above the file
AboveAdmitted(f) == \A n \in 1..(Len(f) - 1) : SubSeq(f, 1, n) \notin gitignore

\* the file is in the list of files once a walk has run and its candidates
\* are in the list scan() returns
ScannedByWalk(f) ==
    /\ lastOp \in {"scan", "rescan", "get_files", "get_globs"} => f \in Range(files)
    /\ lastOp \in {"scan", "rescan"} => fs_content[f] \subseteq Range(scanResult)

\* a default-ignored file that matches no non-negated pattern directive
\* stays out of the walk
UnmatchedStayExcluded ==
    \A f \in SourceFiles \ Whitelisted :
        default_ignored(f) => f \notin Range(files) /\ f \notin walk_admitted

\* C15 as stated: every file that the default rules or a .gitignore would
\* exclude is scanned when it matches a non-negated pattern directive and no
\* negated one, and the default-ignored files that match none stay excluded.
C15_WhitelistBeatsRules ==
    /\ \A f \in Whitelisted \ Negated : RuleExcluded(f) => ScannedByWalk(f)
    /\ UnmatchedStayExcluded

\* C15, amended: a file that a default rule or a .gitignore line excludes is
\* scanned when it matches a non-negated pattern directive and no negated
\* one, provided no directory above it is excluded; the default-ignored
\* files that match no such directive stay excluded.
C15_WhitelistBelowAdmittedDirs ==
    /\ \A f \in Whitelisted \ Negated :
          RuleExcluded(f) /\ AboveAdmitted(f) => ScannedByWalk(f)
    /\ UnmatchedStayExcluded

C15_Witness ==
    /\ sources = {Pattern("**/*.html")}
    /\ gitignore_files[0] = {"a/x.html"}
    /\ RuleExcluded(<<Code("a"), Code("x.html")>>)
    /\ lastOp = "scan"
    /\ Cand("flex") \in Range(scanResult)
    /\ <<Code("a"), Code("foo.styl")>> \notin Range(files)

\* the policy for the .gitignore file of the directory at this level: in force
\* when no directory from the root upwards holds .git, or when the directory
\* is the nearest one that holds .git or lies below it
InForce(level) == git_markers = {} \/ level <= SetMin(git_markers)

\* a .gitignore file the policy puts in force excludes the file or a
\* directory above it
ExcludedByPolicy(f) ==
    \E level \in Levels :
        /\ InForce(level)
        /\ \E n \in 1..Len(f), pat \in gitignore_files[level] :
               line_matches(pat, SubSeq(f, 1, n))

\* no line of the sources matches the file or a directory above it
SourceSilent(f) ==
    \A n \in 1..Len(f) : source_match(sources, SubSeq(f, 1, n)) = "none"

\* C16: with no .git at the root or above it, the .gitignore files of all
\* directories above the root apply to the walk; when the nearest directory
\* that holds .git is R, the .gitignore files of R and below apply and those
\* above R do not.  A file that only .gitignore files can exclude is in the
\* walk exactly when no .gitignore file in force excludes it.
C16_AncestorGitignores ==
    \A f \in SourceFiles :
        /\ create_walker(sources).some
        /\ SourceSilent(f)
        /\ ~default_ignored(f)
        /\ lastOp \in {"scan", "rescan", "get_files", "get_globs"}
        => (f \in Range(files) <=> ~ExcludedByPolicy(f))

C16_Witness ==
    /\ sources = {Auto}
    /\ git_markers = {1}
    /\ gitignore_files = [level \in Levels |-> IF level = 2 THEN {"x.html"} ELSE {}]
    /\ lastOp = "scan"
    /\ scanResult = <<Cand("flex"), Cand("p-4")>>

(***************************************************************************)
(* Properties of the change filter (checked under SpecFilter)              *)
(***************************************************************************)
\* C24: when nothing under the root was created, modified or removed since
\* the previous scan(), a scan() admits nothing: its filter rejects every
\* entry it is asked about, so no recorded time changes, no directory is
\* entered and no file is admitted.
C24_UnchangedSkipped ==
    [][(lastOp \in {"scan", "rescan"} /\ IsScanStep) =>
          /\ mtimes' = mtimes
          /\ walk_admitted' = {}
          /\ files' = files]_vars

\* C25: a file that an earlier walk recorded, that no rule ignores and whose
\* modification time differs from the recorded value, in either direction, is
\* admitted by the next scan().
C25_AnyChangeAdmitted ==
    [][IsScanStep =>
          \A f \in DOMAIN mtimes \cap DOMAIN fs :
              (IsFilePath(f) /\ NonIgnored(f) /\ fs[f] # mtimes[f])
                  => f \in walk_admitted']_vars

\* some path at or below d has a modification time later than since
SubtreeLater(d, since) == \E p \in DOMAIN fs : IsPrefix(d, p) /\ fs[p] > since

\* C26: changed_time_since(dir, since) returns a time later than since exactly
\* when dir itself or a file or directory anywhere below it has a
\* modification time later than since.
C26_LaterIffSubtreeLater ==
    \A d \in DOMAIN fs : \A since \in Times :
        IsDirPath(d) =>
            \A v \in changed_time_since(fs, d, since) :
                v > since <=> SubtreeLater(d, since)

\* the filter recorded for directory a the time of a file two levels below it
C26_Witness ==
    /\ <<Code("a")>> \in DOMAIN mtimes
    /\ mtimes[<<Code("a")>>] = 1
    /\ fs[<<Code("a")>>] = 0
    /\ fs[<<Code("a"), Code("b")>>] = 0
    /\ fs[<<Code("a"), Code("x.html")>>] = 0
    /\ fs[<<Code("a"), Code("b"), Code("x.html")>>] = 1
    /\ changed_time_since(fs, <<Code("a")>>, 0) = {1}

(***************************************************************************)
(* Further properties of the Scanner (checked under Spec)                  *)
(***************************************************************************)
\* the order of paths: component by component, a proper prefix first
PathLess(p, q) ==
    \E n \in 1..Len(q) :
        /\ \A i \in 1..(n - 1) : i <= Len(p) /\ p[i] = q[i]
        /\ (Len(p) = n - 1 \/ (Len(p) >= n /\ p[n] < q[n]))

\* C22 as stated: the list get_files() returns is sorted.
C22_FilesSorted ==
    lastOp = "get_files" =>
        \A i, j \in DOMAIN files : i < j => ~PathLess(files[j], files[i])

\* C22, amended: get_files() returns the paths of the files admitted so far
\* in the order the walks met them: each call appends the files its own walk
\* admits to the list of the earlier walks, and nothing is sorted or removed.
C22_FilesAccumulateInWalkOrder ==
    [][(lastOp' = "get_files" /\ now' = now) =>
          \E order \in Orders(walk_admitted') : files' = files \o order]_vars

C22_Witness ==
    /\ lastOp = "get_files"
    /\ Len(files) = 2
    /\ PathLess(files[2], files[1])
    /\ files[2] \in walk_admitted
    /\ files[1] \notin walk_admitted

\* C27: a file admitted by the walk of get_files() or get_globs() stays on
\* changed_content, and the next scan() takes it off and returns its
\* candidates, whether or not its own walk admits the file.
C27_NoAdmittedFileLost ==
    [][/\ (lastOp' \in {"get_files", "get_globs"} /\ now' = now) =>
              changed_content \cup walk_admitted' \subseteq changed_content'
       /\ IsScanStep =>
              \A f \in changed_content :
                  /\ f \in drained'
                  /\ f \in DOMAIN fs_content => fs_content[f] \subseteq Range(scanResult')]_vars

\* a scan() returned the candidates of a file that its own walk did not admit
C27_Witness ==
    /\ lastOp = "scan"
    /\ \E f \in drained \ walk_admitted :
          /\ f \in DOMAIN fs
          /\ mtimes[f] = fs[f]
          /\ Cand("grid") \in fs_content[f]
          /\ Cand("grid") \in Range(scanResult)

(***************************************************************************)
(* Claims about reads and metadata calls that fail                         *)
(***************************************************************************)
\* C28: a scan() empties changed_content; a file it took off the list and
\* could not read has its modification time recorded, and a scan() does not
\* take an unreadable file whose recorded time is still its modification
\* time.
C28_FailedReadNotRetried ==
    [][IsScanStep =>
          /\ changed_content' = {}
          /\ \A f \in (drained' \cap unreadable) \ meta_err :
                 f \in DOMAIN mtimes' /\ mtimes'[f] = fs[f]
          /\ \A f \in (unreadable \cap DOMAIN mtimes) \ meta_err :
                 mtimes[f] = fs[f] => f \notin drained']_vars

\* a second scan() in a row left alone the file the first one failed to read
C28_Witness ==
    /\ lastOp = "rescan"
    /\ \E f \in unreadable \ meta_err :
          /\ f \in DOMAIN mtimes
          /\ mtimes[f] = fs[f]
          /\ f \notin drained
          /\ fs_content[f] \cap candidates = {}

\* the files of a batch that std::fs::read can read
Readable(batch) == (batch \cap DOMAIN fs_content) \ (unreadable \cup meta_err)

\* what the extractor finds in the readable files of a batch
FoundIn(batch) == UNION {fs_content[f] : f \in Readable(batch)}

\* C30: scan() and scan_content() complete when a file of the batch cannot
\* be read; the accumulator gains exactly the candidates of the readable
\* files of the batch, scan_content() returns the new ones among them and
\* scan() returns the accumulator.
C30_UnreadableSkipped ==
    [][/\ (lastOp' = "scan_content" /\ now' = now) =>
              /\ candidates' = candidates \cup FoundIn(ErrorFiles)
              /\ Range(contentResult') = FoundIn(ErrorFiles) \ candidates
       /\ IsScanStep =>
              /\ candidates' = candidates \cup FoundIn(drained')
              /\ Range(scanResult') = candidates']_vars

\* scan_content() returned the candidates of a/x.html from a batch in which
\* x.html could not be read
C30_Witness ==
    /\ lastOp = "scan_content"
    /\ <<Code("x.html")>> \in unreadable
    /\ <<Code("a"), Code("x.html")>> \in DOMAIN fs_content \ (unreadable \cup meta_err)
    /\ Range(contentResult) = ErrorContent(<<Code("a"), Code("x.html")>>)
    /\ candidates \cap ErrorContent(<<Code("x.html")>>) = {}

\* the filter meets an I/O error on the entry: its metadata cannot be read,
\* or it is a recorded directory whose recursive check fails
FilterError(p) ==
    \/ p \in meta_err
    \/ /\ p \in DOMAIN mtimes
       /\ IsDirPath(p)
       /\ changed_time_since(fs, p, mtimes[p]) = {Err}

\* the filter admitted p in the step: no record, or another recorded value
AdmittedInStep(p) == p \notin DOMAIN mtimes \/ mtimes[p] # mtimes'[p]

\* the filter ran for p in the step: p lies in the base, or in a directory the
\* filter admitted
FilterRan(p) == Parent(p) = base \/ AdmittedInStep(Parent(p))

\* C29 as stated: an entry on which the filter meets an I/O error gets the
\* wall clock as its recorded value and is processed by the scan, a file
\* being put on the work list and a directory on the list of directories.
C29_ErrorEntryProcessed ==
    [][IsScanStep =>
          \A p \in DOMAIN fs \ {base} :
              (FilterError(p) /\ FilterRan(p) /\ (p \in DOMAIN mtimes => mtimes[p] # now)) =>
                  /\ mtimes'[p] = now
                  /\ IsFilePath(p) => p \in drained'
                  /\ IsDirPath(p) => p \in dirs']_vars

\* C29: an entry on which the filter meets an I/O error gets the wall clock
\* as its recorded value and is admitted unless that value was recorded
\* already; an admitted directory is listed and entered, an entry whose own
\* metadata cannot be read is passed over by scan_sources, and a file that
\* only fails to be read has its modification time recorded.
C29_ErrorStoresWallClock ==
    [][IsScanStep =>
          /\ \A p \in DOMAIN fs \ {base} :
                 (FilterError(p) /\ FilterRan(p)) =>
                     /\ mtimes'[p] = now
                     /\ AdmittedInStep(p) <=> (p \in DOMAIN mtimes => mtimes[p] # now)
                     /\ (IsDirPath(p) /\ AdmittedInStep(p)) =>
                            /\ p \in dirs'
                            /\ Children(DOMAIN fs, p) \subseteq DOMAIN mtimes'
                     /\ p \in meta_err => p \notin drained' /\ p \notin walk_admitted'
          /\ \A f \in unreadable \ meta_err :
                 FilterRan(f) => mtimes'[f] = fs[f]]_vars

\* a scan() met a directory whose recursive check failed on a file: both got
\* the wall clock, the directory was entered and the file was passed over
C29_Witness ==
    /\ Scanned
    /\ \E f \in meta_err :
          /\ Len(f) = 2
          /\ mtimes[f] = now
          /\ mtimes[Parent(f)] = now
          /\ fs[f] < now
          /\ fs[Parent(f)] < now
          /\ Parent(f) \in dirs
          /\ f \notin drained

(***************************************************************************)
(* Claims about Scanner::new on a malformed pattern                        *)
(***************************************************************************)
\* some directive carries a pattern that is no valid glob
MalformedDirective ==
    \E s \in sources : s.kind \in {"Pattern", "IgnoredPattern"} /\ s.pattern = "["

\* no operation has run on the Scanner
Untouched ==
    /\ lastOp = "new"
    /\ mtimes = << >>
    /\ files = << >>
    /\ dirs = {}
    /\ candidates = {}

\* C23 as stated: a malformed pattern in a directive makes Scanner::new
\* panic, so that no Scanner is produced.
C23_MalformedPanics == MalformedDirective => ~constructed

\* C23: Scanner::new panics on a malformed pattern exactly when the
\* directives hold an Auto or a Pattern entry; then no Scanner is produced
\* and no operation runs. Without such an entry the Scanner is produced
\* without a walker, and its operations never walk.
C23_PanicsWhenWalkerBuilt ==
    /\ ~constructed <=> (MalformedDirective /\ ~NoAutoOrPattern)
    /\ ~constructed => Untouched
    /\ (constructed /\ MalformedDirective) =>
           mtimes = << >> /\ files = << >> /\ dirs = {} /\ globs = {}

\* Scanner::new panicked on a malformed pattern next to an Auto directive
C23_Witness ==
    /\ ~constructed
    /\ Auto \in sources
    /\ IgnoredPattern("[") \in sources

SubtreeMax(d) == SetMax({fs[p] : p \in {q \in DOMAIN fs : IsPrefix(d, q)}})

\* C40: for a directory the filter has recorded, changed_time_since(dir,
\* since) with the recorded time as since returns the latest modification
\* time found in the whole subtree of dir: dir, the directories below it and
\* the files below it.
C40_ReturnsSubtreeMax ==
    \A d \in DOMAIN mtimes \cap DOMAIN fs :
        IsDirPath(d) =>
            changed_time_since(fs, d, mtimes[d]) = {SubtreeMax(d)}

(***************************************************************************)
(* Further properties of the walks                                         *)
(***************************************************************************)
\* the step is a call of scan(), get_files() or get_globs()
IsWalkStep == lastOp' \in {"scan", "rescan", "get_files", "get_globs"} /\ now' = now

\* the recorded time of f is its modification time
RecordedUnchanged(f) == f \in DOMAIN mtimes /\ mtimes[f] = fs[f]

C32_FilesDistinct ==
    lastOp = "get_files" =>
        \A i, j \in DOMAIN files : files[i] = files[j] => i = j

Permutations_of(list) ==
    {[i \in DOMAIN list |-> list[f[i]]] :
        f \in {g \in [DOMAIN list -> DOMAIN list] :
                  \A i, j \in DOMAIN list : g[i] = g[j] => i = j}}

\* the source entries of the list that sit on base b
EntriesOn(list, b) == {s \in Range(list) : s.base = b}

\* C34: the roots and the ignore lines of each base that create_walker
\* collects are the same for every rearrangement of the list of source
\* entries: the roots are the bases of the Auto and Pattern entries, the lines
\* of a base are those of its entries in one fixed order, and so the verdict
\* of the lines on a path is the same whichever entry comes first.
C34_OrderIndependent ==
    constructed =>
        \A perm \in Permutations_of(directives) :
            /\ collect(perm).roots = walker.roots
            /\ walker.some => collect(perm).ignores = walker.ignores
            /\ collect(perm).roots = roots(Range(directives))
            /\ \A b \in Bases :
                   /\ Range(collect(perm).ignores[b]) = ignores(EntriesOn(directives, b))
                   /\ \A p \in PathUniverse :
                          gitignore_verdict(collect(perm).ignores[b], p)
                              = gitignore_verdict(collect(directives).ignores[b], p)

\* the list names the negated entry before the entry of the same pattern,
\* and the lines of the base ignore a/x.html as they do in the other order
C34_Witness ==
    /\ constructed
    /\ walker.some
    /\ \E i, j \in DOMAIN directives :
          /\ i < j
          /\ directives[i] = IgnoredPattern("**/*.html")
          /\ directives[j] = Pattern("**/*.html")
    /\ Len(walker.ignores[base]) = 2
    /\ walker.ignores[base][1].whitelist
    /\ gitignore_verdict(walker.ignores[base], <<Code("a"), Code("x.html")>>) = "ignore"

\* the base of the first Auto or Pattern entry of the list
FirstRootOfList ==
    directives[SetMin({i \in DOMAIN directives :
                          directives[i].kind \in {"Auto", "Pattern"}})].base

\* C35: the base whose ancestors are searched for a .git marker is the base
\* of the first Auto or Pattern entry of the list, and the walker requires a
\* git repository exactly when a marker is found above that base.
C35_FirstRootInListOrder ==
    (constructed /\ walker.some) =>
        /\ walker.first_root = FirstRootOfList
        /\ walker.require_git = require_git(markers_above(FirstRootOfList))

(***************************************************************************)
(* Claims about the calls that take content from the host                  *)
(***************************************************************************)
\* C36: scan_content() and get_candidates_with_positions() leave the mtimes
\* map, the files, the directories, the globs and the pending work list as
\* they are; get_candidates_with_positions() leaves the candidates as they
\* are too.
C36_ContentCallsSkipWalker ==
    [][(lastOp' \in {"scan_content", "positions"} /\ now' = now) =>
          /\ UNCHANGED <<mtimes, files, dirs, globs, changed_content>>
          /\ lastOp' = "positions" => candidates' = candidates]_vars

\* get_candidates_with_positions() returned a token while files were pending
\* and the walker, the resolver and scan_content() had left their marks
C36_Witness ==
    /\ lastOp = "positions"
    /\ Len(positions) > 0
    /\ changed_content # {}
    /\ DOMAIN mtimes # {}
    /\ Len(files) > 0
    /\ dirs # {}
    /\ globs # {}
    /\ candidates # {}
    /\ contentResult # NoResult

\* the resolver of the Auto source after resolve() on the tree as it is, given
\* the visited set v
ResolvedWith(v) == resolve_loop(GlobResolver_new(DOMAIN fs, v))

\* the entries of the last get_globs() result at the base
EntriesAtBase == {g \in globs : g.base = base}

\* C37: the base of the Auto source is in neither the deep nor the shallow set
\* of its resolver, whatever set of directories the walk visited, and the
\* result of get_globs() holds exactly one entry at the base, the `*` entry,
\* for a scanner with the Auto source and no entry at all for a scanner
\* without one
C37_BaseNotClassified ==
    lastOp = "get_globs" =>
        /\ \A v \in VisitedChoices(DOMAIN fs) :
                /\ base \notin ResolvedWith(v).deep_globable_directories
                /\ base \notin ResolvedWith(v).shallow_globable_directories
        /\ Auto \in sources =>
                EntriesAtBase = {GlobEntry(base, StarPattern)}
        /\ Auto \notin sources => globs = {}

\* C37 witness: get_globs() of a scanner with the Auto source returned the `*`
\* entry at the base next to the shallow entry of a directory below it, the
\* climb from an ignored directory having stopped at the base
C37_Witness ==
    /\ lastOp = "get_globs"
    /\ Auto \in sources
    /\ GlobEntry(base, StarPattern) \in globs
    /\ \E g \in globs : g.base # base /\ ShallowPattern \in g.patterns

\* the patterns of the entries resolve() returns for the tree as it is, given
\* the visited set v
PatternsWith(v) == UNION {g.patterns : g \in resolve_globs(DOMAIN fs, v)}

\* the extensions of the files of the tree
ProjectExtensions ==
    {name_extension(NameTable[FileName(p)]) : p \in {q \in DOMAIN fs : IsFilePath(q)}}

\* C38: every deep and shallow pattern get_globs() returns, and every pattern
\* the resolver returns for any visited set, carries in its braces the lines of
\* the built-in list that are neither comments nor empty, in ascending order
\* with commas between them, the same in every entry, whatever the extensions
\* of the files of the tree are
C38_KnownExtensionList ==
    lastOp = "get_globs" =>
        /\ \A g \in globs : g.patterns \subseteq
                {StarPattern, "*/*.{html,js,pug}", "**/*.{html,js,pug}"}
        /\ \A v \in VisitedChoices(DOMAIN fs) : PatternsWith(v) \subseteq
                {"*/*.{html,js,pug}", "**/*.{html,js,pug}"}

\* C38 witness: get_globs() returned a deep entry with the built-in list for a
\* tree that holds a file whose extension is not in the list
C38_Witness ==
    /\ lastOp = "get_globs"
    /\ "styl" \in ProjectExtensions
    /\ "styl" \notin Range(KNOWN_EXTENSIONS)
    /\ \E g \in globs : "**/*.{html,js,pug}" \in g.patterns

\* C39 as stated: an extension in capitals selects the pre-processor of the
\* same extension in small letters, and content with an extension that has no
\* pre-processor comes back unchanged
C39_CaseInsensitiveDispatch ==
    lastOp = "pre_process" =>
        /\ input.extension \in {"pug", "PUG"} => processed.by = "Pug"
        /\ input.extension = "html" => processed.bytes = input.content

\* C39: the extension is compared with the keys of the table as it is given:
\* `pug` selects Pug and `PUG` selects nothing, and content with an extension
\* that selects nothing, `PUG` among them, comes back unchanged
C39_ExactDispatch ==
    lastOp = "pre_process" =>
        /\ input.extension = "pug" => processed.by = "Pug"
        /\ input.extension # "pug" =>
                processed.by = "none" /\ processed.bytes = input.content

\* C39 witness: content with a dot in it was given with the extension `PUG`
\* and came back with the dot in place
C39_Witness ==
    /\ lastOp = "pre_process"
    /\ input.extension = "PUG"
    /\ contains_str(input.content, <<".">>)
    /\ processed = [by |-> "none", bytes |-> input.content]

====
